---- MODULE Spec2Model ----
(***************************************************************************)
(* Model of the review-and-remediation control loop and of the workflow    *)
(* deduplication cache of the ADW webhook server.                          *)
(*                                                                         *)
(*   apps/adw_server/core/review_actions.py  attempt tracker and           *)
(*                                           handle_review_results         *)
(*   apps/adw_server/core/handlers.py        should_trigger_workflow,      *)
(*                                           handle_issue_event,           *)
(*                                           handle_pull_request_event     *)
(*   apps/adw_server/core/adw_integration.py the workflow triggers         *)
(*   apps/adw_server/server.py               process_github_webhook        *)
(*                                                                         *)
(* Spec          the remediation orchestrator over the attempt map         *)
(* SpecDedup     the deduplication cache over a non-decreasing clock       *)
(* SpecIssue     issue events over a clock                                 *)
(* SpecRoute     issue events with every label list, at one instant        *)
(* SpecPR        pull-request events                                       *)
(* SpecTracker   the three attempt-tracker functions called directly       *)
(* SpecLifecycle reviews, and issues closed and re-opened                  *)
(* SpecConc      handle_review_results coroutines interleaved at awaits    *)
(* SpecIssueConc handle_issue_event coroutines interleaved at awaits       *)
(* SpecParser    the review parser and the comment formatter applied to    *)
(*               bounded review texts                                      *)
(* SpecWebhook   webhook requests through the endpoint                     *)
(* SpecWorkflow  the workflow triggers over their collaborators' outcomes  *)
(* SpecWindow    dedup calls of one kind, suppressed calls counted         *)
(* SpecRedelivery issue events of one kind, workflow outcomes kept         *)
(***************************************************************************)
EXTENDS Integers, Sequences, FiniteSets, TLC

VARIABLES
    reimplement_attempts,   \* _reimplement_attempts: dict issue -> count
    config,                 \* the record get_config() returns
    call,                   \* arguments and collaborator outcomes of the last call
    result,                 \* the dict the last call returned
    raised,                 \* TRUE when the last call ended by an exception
    merge_calls,            \* merge_pull_request calls made by the last call
    agent_calls,            \* trigger_reimplementation calls made by the last call
    comments,               \* comment posts attempted by the last call, in order
    started,                \* history: re-implementations started per primary
                            \* issue since the issue's last reset
    workflow_dedup_cache,   \* _workflow_dedup_cache: dict (issue, kind) -> time
    now,                    \* time.time()
    dedup_call,             \* arguments and return value of the last dedup call
    last_true,              \* history: time of the last True result per key
    issue_event,            \* the issue webhook event being handled
    pr_event,               \* the pull-request webhook event being handled
    tracker_call,           \* the last direct call of an attempt-tracker function
    increments,             \* history: increments per issue since its last reset
    tasks,                  \* the concurrent handle_review_results coroutines
    issue_tasks,            \* the concurrent handle_issue_event coroutines
    parse_call,             \* the review text parsed last and what was parsed
    webhook,                \* the webhook request being answered
    workflow_run,           \* the agent workflow triggered last and its results
    suppressed,             \* history: suppressed dedup calls per key since the
                            \* key's last True result
    last_outcome            \* history: how the last agent workflow started for
                            \* a key ended

review_vars == <<reimplement_attempts, config, call, result, raised,
                 merge_calls, agent_calls, comments, started>>
dedup_vars == <<workflow_dedup_cache, now, dedup_call, last_true>>
event_vars == <<issue_event, pr_event, tracker_call, increments, tasks>>
other_vars == <<parse_call, webhook, workflow_run>>
ghost_vars == <<suppressed, last_outcome>>
more_vars == <<issue_tasks, other_vars, ghost_vars>>
vars == <<review_vars, dedup_vars, event_vars, more_vars>>

----------------------------------------------------------------------------
(* Bounds of the model *)

\* issues are numbered 1..MaxIssue
MaxIssue == 2
\* handle_review_results coroutines alive at once
MaxTasks == 2
Tasks == 1..MaxTasks
\* max_reimplement_attempts is drawn from 1..MaxAttemptsLimit
MaxAttemptsLimit == 2

Issues == 1..MaxIssue

\* the key handle_review_results uses when no issue is linked
NoIssue == 0

IssueKeys == Issues \cup {NoIssue}

RECURSIVE Perms(_)
\* the duplicate-free lists over a set of issues
Perms(S) ==
    IF S = {} THEN {<<>>}
    ELSE UNION {{<<x>> \o p : p \in Perms(S \ {x})} : x \in S}

\* issue_numbers arguments: extract_issue_references removes duplicates
IssueLists == UNION {Perms(S) : S \in SUBSET Issues}

\* repo_full_name arguments, as character sequences:
\* "o/r", "or" (no separator), "o/r/x" (two separators)
RepoNames == {<<"o", "/", "r">>, <<"o", "r">>, <<"o", "/", "r", "/", "x">>}

ApprovalStatuses == {"APPROVED", "CHANGES_REQUESTED", "NEEDS_DISCUSSION"}

\* what the gh subprocess of merge_pull_request does
MergeOutcomes == {"rc0", "rc_nonzero", "timeout", "exception"}
\* what trigger_reimplementation does: returns a planning result, or raises
AgentOutcomes == {"plan_ok", "plan_failed", "raise"}
\* what the comment posts of one call do: all return, or all raise
CommentOutcomes == {"ok", "raise"}

----------------------------------------------------------------------------
(* Dictionaries *)

\* d.get(k, default)
Get(d, k, default) == IF k \in DOMAIN d THEN d[k] ELSE default

\* d[k] = v
Put(d, k, v) == (k :> v) @@ d

\* del d[k]
Del(d, k) == [x \in (DOMAIN d) \ {k} |-> d[x]]

EmptyDict == [x \in {} |-> 0]

----------------------------------------------------------------------------
(* Attempt tracker *)

\* mutant: allowed while current_count <= max_attempts
check_reimplement_attempts_Le(attempts, issue_number, max_attempts) ==
    LET current_count == Get(attempts, issue_number, 0)
    IN  [allowed |-> current_count <= max_attempts, count |-> current_count]

\* mutant: an issue with no entry is given the count 1
check_reimplement_attempts_DefaultOne(attempts, issue_number, max_attempts) ==
    LET current_count == Get(attempts, issue_number, 1)
    IN  [allowed |-> current_count < max_attempts, count |-> current_count]

\* (allowed, current_count)
check_reimplement_attempts(attempts, issue_number, max_attempts) ==
    LET current_count == Get(attempts, issue_number, 0)
    IN  [allowed |-> current_count < max_attempts, count |-> current_count]

\* mutant: the entry is set to 1 instead of being raised by 1
increment_reimplement_attempts_SetOne(attempts, issue_number) ==
    Put(attempts, issue_number, 1)

\* the map after the increment; the new count is the entry's value
increment_reimplement_attempts(attempts, issue_number) ==
    Put(attempts, issue_number, Get(attempts, issue_number, 0) + 1)

\* del d[k]: KeyError when the key is absent
DelStrict(d, k) ==
    IF k \in DOMAIN d THEN [raised |-> FALSE, attempts |-> Del(d, k)]
    ELSE [raised |-> TRUE, attempts |-> d]

\* mutant: the entry is deleted without the membership test
ResetOutcome_Unguarded(attempts, issue_number) ==
    DelStrict(attempts, issue_number)

\* mutant: the whole map is cleared
ResetOutcome_ClearAll(attempts, issue_number) ==
    [raised |-> FALSE, attempts |-> EmptyDict]

\* if issue_number in _reimplement_attempts: del ...; the map afterwards and
\* whether an exception left the function
ResetOutcome(attempts, issue_number) ==
    IF issue_number \in DOMAIN attempts THEN DelStrict(attempts, issue_number)
    ELSE [raised |-> FALSE, attempts |-> attempts]

reset_reimplement_attempts(attempts, issue_number) ==
    ResetOutcome(attempts, issue_number).attempts

\* mutant: only the first linked issue is reset
ResetAll_PrimaryOnly(attempts, issue_numbers) ==
    IF issue_numbers = <<>> THEN attempts
    ELSE reset_reimplement_attempts(attempts, Head(issue_numbers))

RECURSIVE ResetAll(_, _)
\* for issue_num in issue_numbers: reset_reimplement_attempts(issue_num)
ResetAll(attempts, issue_numbers) ==
    IF issue_numbers = <<>> THEN attempts
    ELSE ResetAll(reset_reimplement_attempts(attempts, Head(issue_numbers)),
                  Tail(issue_numbers))

----------------------------------------------------------------------------
(* Collaborators *)

RECURSIVE Split(_, _)
\* str.split(sep): the parts between the separators
Split(s, sep) ==
    IF s = <<>> THEN <<<<>>>>
    ELSE LET rest == Split(Tail(s), sep)
         IN  IF Head(s) = sep THEN <<<<>>>> \o rest
             ELSE <<<<Head(s)>> \o Head(rest)>> \o Tail(rest)

\* merge_pull_request: True on return code 0, False on every failure;
\* TimeoutExpired and every other exception are caught inside
merge_pull_request(outcome) == outcome = "rc0"

\* mutant: the re-implementation call is not wrapped in try/except
CaughtSites_NoAgent ==
    {"post_merge_comment", "make_github_issue_comment",
     "post_reimplementation_comment"}

\* the call sites of handle_review_results wrapped in try/except Exception
CaughtSites == {"post_merge_comment", "make_github_issue_comment",
                "trigger_reimplementation", "post_reimplementation_comment"}

\* whether an exception raised at a call site leaves handle_review_results
Propagates(site, outcome) == outcome = "raise" /\ site \notin CaughtSites

RECURSIVE PostAll(_, _, _, _)
\* for issue_num in issue_numbers: try: post(...) except Exception: log
\* the posts attempted, and whether an exception left the loop
PostAll(issue_numbers, kind, site, outcome) ==
    IF issue_numbers = <<>> THEN [log |-> <<>>, raised |-> FALSE]
    ELSE LET post == [issue |-> Head(issue_numbers), kind |-> kind]
         IN  IF Propagates(site, outcome)
             THEN [log |-> <<post>>, raised |-> TRUE]
             ELSE LET rest == PostAll(Tail(issue_numbers), kind, site, outcome)
                  IN  [log |-> <<post>> \o rest.log, raised |-> rest.raised]

----------------------------------------------------------------------------
(* handle_review_results *)

\* approval_status.lower()
Lower(status) ==
    CASE status = "APPROVED" -> "approved"
      [] status = "CHANGES_REQUESTED" -> "changes_requested"
      [] status = "NEEDS_DISCUSSION" -> "needs_discussion"

\* mutant: only a missing separator is rejected
RepoParses_AtLeastTwo(repo_full_name) == Len(Split(repo_full_name, "/")) >= 2

\* repo_owner, repo_name = repo_full_name.split("/") raises no ValueError
RepoParses(repo_full_name) == Len(Split(repo_full_name, "/")) = 2

\* mutant: the last linked issue is taken as the primary one
PrimaryIssue_Last(issue_numbers) ==
    IF issue_numbers # <<>> THEN issue_numbers[Len(issue_numbers)] ELSE NoIssue

\* issue_numbers[0] if issue_numbers else 0
PrimaryIssue(issue_numbers) ==
    IF issue_numbers # <<>> THEN issue_numbers[1] ELSE NoIssue

\* mutant: the loop protection is not consulted
Decision_NoLoopProtection(attempts, cfg, in) ==
    IF ~RepoParses(in.repo_full_name) THEN "error"
    ELSE IF in.approval_status = "APPROVED" /\ cfg.auto_merge_on_approval
    THEN "merge"
    ELSE IF in.approval_status = "CHANGES_REQUESTED"
            /\ cfg.auto_reimplement_on_changes
    THEN "reimplement"
    ELSE "comment_only"

\* mutant: the auto-merge policy is not consulted
Decision_IgnoresMergePolicy(attempts, cfg, in) ==
    IF ~RepoParses(in.repo_full_name) THEN "error"
    ELSE IF in.approval_status = "APPROVED"
    THEN "merge"
    ELSE IF in.approval_status = "CHANGES_REQUESTED"
            /\ cfg.auto_reimplement_on_changes
    THEN IF check_reimplement_attempts(attempts,
                PrimaryIssue(in.issue_numbers),
                cfg.max_reimplement_attempts).allowed
         THEN "reimplement"
         ELSE "max_attempts_reached"
    ELSE "comment_only"

\* the branch handle_review_results takes
Decision(attempts, cfg, in) ==
    IF ~RepoParses(in.repo_full_name) THEN "error"
    ELSE IF in.approval_status = "APPROVED" /\ cfg.auto_merge_on_approval
    THEN "merge"
    ELSE IF in.approval_status = "CHANGES_REQUESTED"
            /\ cfg.auto_reimplement_on_changes
    THEN IF check_reimplement_attempts(attempts,
                PrimaryIssue(in.issue_numbers),
                cfg.max_reimplement_attempts).allowed
         THEN "reimplement"
         ELSE "max_attempts_reached"
    ELSE "comment_only"

\* the result dict as first built, from the parsed review
\* mutant: the initial dict has no issues key
BaseResult_NoIssues(status) ==
    [action |-> Lower(status),
     success |-> FALSE,
     approval_status |-> status,
     summary |-> "summary",
     recommendations |-> "recommendations"]

BaseResult(status) ==
    [action |-> Lower(status),
     success |-> FALSE,
     approval_status |-> status,
     summary |-> "summary",
     recommendations |-> "recommendations",
     issues |-> "issues"]

ErrorResult ==
    [action |-> "error", success |-> FALSE,
     error |-> "Invalid repository name format"]

\* no dict is returned when the call ends by an exception
NoResult == [x \in {} |-> FALSE]

NoEffects ==
    [merge_calls |-> 0, agent_calls |-> 0, comments |-> <<>>,
     raised |-> FALSE, reset |-> {}, started |-> {}]

\* mutant: a failed merge is tried a second time
MergeBranch_RetryOnFailure(attempts, in) ==
    LET issue_numbers == in.issue_numbers
        merge_success == merge_pull_request(in.merge_outcome)
        posts == PostAll(issue_numbers,
                         IF merge_success THEN "merge_success"
                         ELSE "merge_failed",
                         "post_merge_comment", in.comment_outcome)
        res == Put(Put(BaseResult(in.approval_status),
                       "success", merge_success),
                   "merge_attempted", TRUE)
        do_reset == merge_success /\ issue_numbers # <<>>
    IN  [result |-> IF posts.raised THEN NoResult ELSE res,
         attempts |-> IF do_reset THEN ResetAll(attempts, issue_numbers)
                      ELSE attempts,
         merge_calls |-> IF merge_success THEN 1 ELSE 2, agent_calls |-> 0,
         comments |-> posts.log, raised |-> posts.raised,
         reset |-> IF do_reset
                   THEN {issue_numbers[i] : i \in 1..Len(issue_numbers)}
                   ELSE {},
         started |-> {}]

\* mutant: the counters are reset whatever the merge outcome
MergeBranch_ResetAlways(attempts, in) ==
    LET issue_numbers == in.issue_numbers
        merge_success == merge_pull_request(in.merge_outcome)
        posts == PostAll(issue_numbers,
                         IF merge_success THEN "merge_success"
                         ELSE "merge_failed",
                         "post_merge_comment", in.comment_outcome)
        res == Put(Put(BaseResult(in.approval_status),
                       "success", merge_success),
                   "merge_attempted", TRUE)
    IN  [result |-> IF posts.raised THEN NoResult ELSE res,
         attempts |-> ResetAll(attempts, issue_numbers),
         merge_calls |-> 1, agent_calls |-> 0,
         comments |-> posts.log, raised |-> posts.raised,
         reset |-> {issue_numbers[i] : i \in 1..Len(issue_numbers)},
         started |-> {}]

\* APPROVED and auto-merge enabled
MergeBranch(attempts, in) ==
    LET issue_numbers == in.issue_numbers
        merge_success == merge_pull_request(in.merge_outcome)
        posts == PostAll(issue_numbers,
                         IF merge_success THEN "merge_success"
                         ELSE "merge_failed",
                         "post_merge_comment", in.comment_outcome)
        res == Put(Put(BaseResult(in.approval_status),
                       "success", merge_success),
                   "merge_attempted", TRUE)
        do_reset == merge_success /\ issue_numbers # <<>>
    IN  [result |-> IF posts.raised THEN NoResult ELSE res,
         attempts |-> IF do_reset THEN ResetAll(attempts, issue_numbers)
                      ELSE attempts,
         merge_calls |-> 1, agent_calls |-> 0,
         comments |-> posts.log, raised |-> posts.raised,
         reset |-> IF do_reset
                   THEN {issue_numbers[i] : i \in 1..Len(issue_numbers)}
                   ELSE {},
         started |-> {}]

\* mutant: the refused review clears the counter of the primary issue
MaxAttemptsBranch_ClearsCounter(attempts, cfg, in) ==
    [result |-> Put(Put(BaseResult(in.approval_status),
                        "action", "max_attempts_reached"), "success", FALSE),
     attempts |-> reset_reimplement_attempts(attempts,
                      PrimaryIssue(in.issue_numbers)),
     merge_calls |-> 0, agent_calls |-> 0,
     comments |-> PostAll(in.issue_numbers, "max_attempts",
                          "make_github_issue_comment", in.comment_outcome).log,
     raised |-> FALSE, reset |-> {}, started |-> {}]

\* CHANGES_REQUESTED, auto-reimplement enabled, loop protection refuses
MaxAttemptsBranch(attempts, cfg, in) ==
    LET issue_numbers == in.issue_numbers
        chk == check_reimplement_attempts(attempts,
                   PrimaryIssue(issue_numbers), cfg.max_reimplement_attempts)
        posts == PostAll(issue_numbers, "max_attempts",
                         "make_github_issue_comment", in.comment_outcome)
        res == Put(Put(Put(BaseResult(in.approval_status),
                           "action", "max_attempts_reached"),
                       "success", FALSE),
                   "attempt_count", chk.count)
    IN  [result |-> IF posts.raised THEN NoResult ELSE res,
         attempts |-> attempts,
         merge_calls |-> 0, agent_calls |-> 0,
         comments |-> posts.log, raised |-> posts.raised,
         reset |-> {}, started |-> {}]

\* mutant: an attempt whose workflow raised or whose planning failed is
\* taken back
ReimplementBranch_RollsBack(attempts, in) ==
    LET issue_numbers == in.issue_numbers
        primary_issue == PrimaryIssue(issue_numbers)
        incremented == increment_reimplement_attempts(attempts, primary_issue)
        chore_success == in.agent_outcome = "plan_ok"
        res0 == Put(BaseResult(in.approval_status), "attempt_count",
                    incremented[primary_issue])
        posts == PostAll(issue_numbers, "reimplementation_started",
                         "post_reimplementation_comment", in.comment_outcome)
    IN  [attempts |-> IF chore_success THEN incremented ELSE attempts,
         merge_calls |-> 0, agent_calls |-> 1, reset |-> {},
         started |-> {primary_issue},
         result |-> IF in.agent_outcome = "raise"
                    THEN Put(Put(res0, "success", FALSE), "error", "exception")
                    ELSE IF posts.raised THEN NoResult
                    ELSE Put(Put(res0, "success", chore_success),
                             "reimplementation_attempted", TRUE),
         comments |-> IF in.agent_outcome = "raise" THEN <<>> ELSE posts.log,
         raised |-> in.agent_outcome # "raise" /\ posts.raised]

\* CHANGES_REQUESTED, auto-reimplement enabled, loop protection allows
ReimplementBranch(attempts, in) ==
    LET issue_numbers == in.issue_numbers
        primary_issue == PrimaryIssue(issue_numbers)
        incremented == increment_reimplement_attempts(attempts, primary_issue)
        new_count == incremented[primary_issue]
        res0 == Put(BaseResult(in.approval_status), "attempt_count", new_count)
        common == [attempts |-> incremented, merge_calls |-> 0,
                   agent_calls |-> 1, reset |-> {}, started |-> {primary_issue}]
    IN  IF in.agent_outcome = "raise"
        THEN IF Propagates("trigger_reimplementation", in.agent_outcome)
             THEN common @@ [result |-> NoResult, comments |-> <<>>,
                             raised |-> TRUE]
             ELSE common @@
                  [result |-> Put(Put(res0, "success", FALSE),
                                  "error", "exception"),
                   comments |-> <<>>, raised |-> FALSE]
        ELSE LET chore_success == in.agent_outcome = "plan_ok"
                 res == Put(Put(Put(Put(Put(res0,
                            "success", chore_success),
                            "reimplementation_attempted", TRUE),
                            "new_adw_id", "new_adw_id"),
                            "chore_result", [success |-> chore_success]),
                            "impl_result", "impl_result")
                 posts == PostAll(issue_numbers, "reimplementation_started",
                                  "post_reimplementation_comment",
                                  in.comment_outcome)
             IN  common @@
                 [result |-> IF posts.raised THEN NoResult ELSE res,
                  comments |-> posts.log, raised |-> posts.raised]

\* the whole call: the returned dict, the attempt map afterwards, and the
\* collaborator calls made
HandleReviewResults(attempts, cfg, in) ==
    LET branch == Decision(attempts, cfg, in)
    IN  CASE branch = "error" ->
               NoEffects @@ [result |-> ErrorResult, attempts |-> attempts]
          [] branch = "merge" -> MergeBranch(attempts, in)
          [] branch = "max_attempts_reached" ->
               MaxAttemptsBranch(attempts, cfg, in)
          [] branch = "reimplement" -> ReimplementBranch(attempts, in)
          [] branch = "comment_only" ->
               NoEffects @@
               [result |-> Put(Put(BaseResult(in.approval_status),
                                   "action", "comment_only"),
                               "success", TRUE),
                attempts |-> attempts]

----------------------------------------------------------------------------
(* Deduplication cache *)

DEDUP_WINDOW_SECONDS == 60

\* workflow_type arguments
WorkflowTypes == {"chore", "chore_implement"}

\* mutant: the entry is kept under the issue number alone
should_trigger_workflow_KeyByIssue(cache, issue_number, workflow_type, current_time) ==
    LET cache_key == <<issue_number, "chore">>
        kept == {key \in DOMAIN cache :
                   ~(current_time - cache[key] > DEDUP_WINDOW_SECONDS)}
        swept == [key \in kept |-> cache[key]]
    IN  IF /\ cache_key \in DOMAIN swept
           /\ current_time - swept[cache_key] < DEDUP_WINDOW_SECONDS
        THEN [returned |-> FALSE, cache |-> swept]
        ELSE [returned |-> TRUE, cache |-> Put(swept, cache_key, current_time)]

\* mutant: a suppressed call refreshes the timestamp of its key
should_trigger_workflow_Refresh(cache, issue_number, workflow_type, current_time) ==
    LET cache_key == <<issue_number, workflow_type>>
        kept == {key \in DOMAIN cache :
                   ~(current_time - cache[key] > DEDUP_WINDOW_SECONDS)}
        swept == [key \in kept |-> cache[key]]
    IN  IF /\ cache_key \in DOMAIN swept
           /\ current_time - swept[cache_key] < DEDUP_WINDOW_SECONDS
        THEN [returned |-> FALSE, cache |-> Put(swept, cache_key, current_time)]
        ELSE [returned |-> TRUE, cache |-> Put(swept, cache_key, current_time)]

\* mutant: only an expired entry of the queried key is removed
should_trigger_workflow_SweepOwnKey(cache, issue_number, workflow_type, current_time) ==
    LET cache_key == <<issue_number, workflow_type>>
        kept == {key \in DOMAIN cache :
                   \/ key # cache_key
                   \/ ~(current_time - cache[key] > DEDUP_WINDOW_SECONDS)}
        swept == [key \in kept |-> cache[key]]
    IN  IF /\ cache_key \in DOMAIN swept
           /\ current_time - swept[cache_key] < DEDUP_WINDOW_SECONDS
        THEN [returned |-> FALSE, cache |-> swept]
        ELSE [returned |-> TRUE, cache |-> Put(swept, cache_key, current_time)]

\* mutant: a trigger exactly one window old still suppresses
should_trigger_workflow_Le(cache, issue_number, workflow_type, current_time) ==
    LET cache_key == <<issue_number, workflow_type>>
        kept == {key \in DOMAIN cache :
                   ~(current_time - cache[key] > DEDUP_WINDOW_SECONDS)}
        swept == [key \in kept |-> cache[key]]
    IN  IF /\ cache_key \in DOMAIN swept
           /\ current_time - swept[cache_key] <= DEDUP_WINDOW_SECONDS
        THEN [returned |-> FALSE, cache |-> swept]
        ELSE [returned |-> TRUE, cache |-> Put(swept, cache_key, current_time)]

\* should_trigger_workflow at time current_time: the value returned and the
\* cache afterwards
should_trigger_workflow(cache, issue_number, workflow_type, current_time) ==
    LET cache_key == <<issue_number, workflow_type>>
        \* the entries that are not expired
        kept == {key \in DOMAIN cache :
                   ~(current_time - cache[key] > DEDUP_WINDOW_SECONDS)}
        swept == [key \in kept |-> cache[key]]
    IN  IF /\ cache_key \in DOMAIN swept
           /\ current_time - swept[cache_key] < DEDUP_WINDOW_SECONDS
        THEN [returned |-> FALSE, cache |-> swept]
        ELSE [returned |-> TRUE, cache |-> Put(swept, cache_key, current_time)]

----------------------------------------------------------------------------
(* The remediation orchestrator as a state machine *)

\* the configurations get_config() can return; fixed for a run
Configs ==
    [auto_merge_on_approval : BOOLEAN,
     auto_reimplement_on_changes : BOOLEAN,
     max_reimplement_attempts : 1..MaxAttemptsLimit]

NoCall ==
    [approval_status |-> "none", issue_numbers |-> <<>>,
     repo_full_name |-> <<>>, merge_outcome |-> "none",
     agent_outcome |-> "none", comment_outcome |-> "none",
     branch |-> "none", before |-> EmptyDict]

ReviewInit ==
    /\ reimplement_attempts = EmptyDict
    /\ config \in Configs
    /\ call = NoCall
    /\ result = NoResult
    /\ raised = FALSE
    /\ merge_calls = 0
    /\ agent_calls = 0
    /\ comments = <<>>
    /\ started = [i \in IssueKeys |-> 0]

NoDedupCall ==
    [issue_number |-> NoIssue, workflow_type |-> "none", returned |-> FALSE,
     at |-> 0, before |-> EmptyDict, history |-> EmptyDict]

DedupIdle ==
    /\ workflow_dedup_cache = EmptyDict
    /\ now = 0
    /\ dedup_call = NoDedupCall
    /\ last_true = EmptyDict

NoIssueEvent ==
    [issue_number |-> NoIssue, action |-> "none", labels |-> <<>>,
     phase |-> "idle", workflow |-> "None", outcome |-> "none",
     agent_calls |-> 0, comments |-> <<>>, result |-> NoResult,
     at |-> 0, before |-> EmptyDict, history |-> EmptyDict]

NoPREvent ==
    [action |-> "none", pr_body |-> <<>>, repo_full_name |-> <<>>,
     phase |-> "idle", issue_numbers |-> <<>>, review_outcome |-> "none",
     review_success |-> FALSE, action_outcome |-> "none",
     review_calls |-> 0, action_calls |-> 0, comments |-> <<>>,
     result |-> NoResult]

NoTrackerCall ==
    [op |-> "none", issue_number |-> NoIssue, max_attempts |-> 0,
     allowed |-> FALSE, count |-> 0, raised |-> FALSE, before |-> EmptyDict]

IdleTask == [pc |-> 0, issue_numbers |-> <<>>]

NoIssues == [Critical |-> <<>>, Moderate |-> <<>>, Minor |-> <<>>]

NoParseCall ==
    [phase |-> "idle", text |-> <<>>, approval_status |-> "none",
     summary |-> <<>>, recommendations |-> <<>>, issues |-> NoIssues,
     shown_status |-> "none"]

\* request.headers.get(...) of a header that was not sent
NoHeader == [prefix |-> "None", key |-> "None", msg |-> "None"]

NoWebhook ==
    [phase |-> "idle", event_type |-> "None", body |-> "None",
     signature |-> NoHeader, status_code |-> 0, handler |-> "None",
     parsed |-> FALSE, before |-> EmptyDict]

NoWorkflowRun ==
    [function |-> "None", inputs |-> EmptyDict, results |-> <<>>,
     phases |-> <<>>]

IdleIssueTask ==
    [pc |-> "idle", issue_number |-> NoIssue, workflow_type |-> "None",
     launched |-> FALSE, recent |-> FALSE, at |-> 0]

EventsIdle ==
    /\ issue_event = NoIssueEvent
    /\ pr_event = NoPREvent
    /\ tracker_call = NoTrackerCall
    /\ increments = [i \in IssueKeys |-> 0]
    /\ tasks = [t \in Tasks |-> IdleTask]
    /\ issue_tasks = [t \in Tasks |-> IdleIssueTask]
    /\ parse_call = NoParseCall
    /\ webhook = NoWebhook
    /\ workflow_run = NoWorkflowRun
    /\ suppressed = EmptyDict
    /\ last_outcome = EmptyDict

Init == ReviewInit /\ DedupIdle /\ EventsIdle

\* one call of handle_review_results, with the outcomes of the collaborators
\* it consults
HandleReviewResultsCall ==
    /\ call = NoCall
    /\ \E status    \in ApprovalStatuses, issue_numbers \in IssueLists,
          repo \in RepoNames :
         LET args == [approval_status |-> status,
                      issue_numbers |-> issue_numbers,
                      repo_full_name |-> repo]
             branch == Decision(reimplement_attempts, config, args)
         IN
         \E m \in (IF branch = "merge" THEN MergeOutcomes ELSE {"none"}),
            a \in (IF branch = "reimplement" THEN AgentOutcomes ELSE {"none"}) :
           \E c \in (IF /\ issue_numbers # <<>>
                        /\ \/ branch \in {"merge", "max_attempts_reached"}
                           \/ branch = "reimplement" /\ a # "raise"
                     THEN CommentOutcomes ELSE {"none"}) :
             LET in == args @@ [merge_outcome |-> m, agent_outcome |-> a,
                                comment_outcome |-> c]
             IN
             \E run \in {HandleReviewResults(reimplement_attempts, config, in)} :
                 /\ call' = in @@ [branch |-> branch,
                                   before |-> reimplement_attempts]
                 /\ reimplement_attempts' = run.attempts
                 /\ result' = run.result
                 /\ raised' = run.raised
                 /\ merge_calls' = run.merge_calls
                 /\ agent_calls' = run.agent_calls
                 /\ comments' = run.comments
                 /\ started' = [i \in IssueKeys |->
                                  IF i \in run.reset THEN 0
                                  ELSE IF i \in run.started THEN started[i] + 1
                                  ELSE started[i]]
                 /\ UNCHANGED <<config, dedup_vars, event_vars,
                   more_vars>>

\* the caller has taken the returned dict (or the exception): the locals of
\* the finished call are gone, the attempt map stays
ReviewCallReturns ==
    /\ call # NoCall
    /\ call' = NoCall
    /\ result' = NoResult
    /\ raised' = FALSE
    /\ merge_calls' = 0
    /\ agent_calls' = 0
    /\ comments' = <<>>
    /\ UNCHANGED <<reimplement_attempts, config, started, dedup_vars,
                   event_vars,
                   more_vars>>

Next == HandleReviewResultsCall \/ ReviewCallReturns

Spec == Init /\ [][Next]_vars

----------------------------------------------------------------------------
(* Claims about the remediation orchestrator, checked under Spec *)

\* a call of handle_review_results has returned (or raised)
Called == call # NoCall

\* the attempt count of the primary issue when the call started
CountBefore == Get(call.before, PrimaryIssue(call.issue_numbers), 0)

\* the number of "/" separators of the repository identifier of the call
Separators ==
    Cardinality({i \in 1..Len(call.repo_full_name) :
                   call.repo_full_name[i] = "/"})

\* the review text was parsed, which happens once the repository identifier
\* has been split: the call "got" the verdict
GotVerdict(status) ==
    Called /\ Separators = 1 /\ call.approval_status = status

LinkedIssues == {call.issue_numbers[i] : i \in 1..Len(call.issue_numbers)}

\* C1: loop bound. From the empty attempt map, with max_reimplement_attempts
\* fixed and the map changed by handle_review_results only, every stored
\* count is at most max_reimplement_attempts, and so is the number of
\* re-implementations started for an issue since its last reset.
C1_LoopBound ==
    /\ \A i \in DOMAIN reimplement_attempts :
         reimplement_attempts[i] <= config.max_reimplement_attempts
    /\ \A i \in IssueKeys : started[i] <= config.max_reimplement_attempts

\* the bound is reached and a further review is refused
C1_Witness ==
    /\ call.branch = "max_attempts_reached"
    /\ \E i \in Issues :
         /\ i \in DOMAIN reimplement_attempts
         /\ reimplement_attempts[i] = config.max_reimplement_attempts
         /\ started[i] = config.max_reimplement_attempts

\* C2: CHANGES_REQUESTED with auto-reimplement enabled and the primary
\* issue's count at or above the maximum: no re-implementation is invoked,
\* the attempt map is unchanged, and the result has action
\* "max_attempts_reached", success false and the current count.
C2_MaxAttemptsBlocks ==
    (/\ GotVerdict("CHANGES_REQUESTED")
     /\ config.auto_reimplement_on_changes
     /\ CountBefore >= config.max_reimplement_attempts)
    => /\ agent_calls = 0
       /\ reimplement_attempts = call.before
       /\ ~raised
       /\ result.action = "max_attempts_reached"
       /\ result.success = FALSE
       /\ "attempt_count" \in DOMAIN result
       /\ result.attempt_count = CountBefore

C2_Witness ==
    /\ GotVerdict("CHANGES_REQUESTED")
    /\ config.auto_reimplement_on_changes
    /\ CountBefore >= config.max_reimplement_attempts
    /\ call.issue_numbers # <<>>
    /\ result.action = "max_attempts_reached"

\* the case of C3: CHANGES_REQUESTED, auto-reimplement enabled, count below
\* the maximum
C3_Case ==
    /\ GotVerdict("CHANGES_REQUESTED")
    /\ config.auto_reimplement_on_changes
    /\ CountBefore < config.max_reimplement_attempts

\* the counter of the primary issue went from c to c+1, nothing else changed,
\* one re-implementation was invoked and the result carries c+1
C3_CountedOnce ==
    /\ reimplement_attempts =
         Put(call.before, PrimaryIssue(call.issue_numbers), CountBefore + 1)
    /\ agent_calls = 1
    /\ ~raised
    /\ "attempt_count" \in DOMAIN result
    /\ result.attempt_count = CountBefore + 1

\* C3 as stated: in that case the counter is incremented exactly once, the
\* re-implementation is invoked exactly once, and the result has
\* attempt_count c+1, reimplementation_attempted true and success equal to
\* the success of the new planning phase.
C3_AsStated ==
    C3_Case
    => /\ C3_CountedOnce
       /\ "reimplementation_attempted" \in DOMAIN result
       /\ result.reimplementation_attempted = TRUE
       /\ result.success = (call.agent_outcome = "plan_ok")

\* C3 amended: as stated when the re-implementation call returns; when it
\* raises, the counter is c+1 all the same and the result has success false,
\* an error, and no reimplementation_attempted key.
C3_Reimplements ==
    C3_Case
    => /\ C3_CountedOnce
       /\ IF call.agent_outcome = "raise"
          THEN /\ result.success = FALSE
               /\ "error" \in DOMAIN result
               /\ "reimplementation_attempted" \notin DOMAIN result
          ELSE /\ "reimplementation_attempted" \in DOMAIN result
               /\ result.reimplementation_attempted = TRUE
               /\ result.success = (call.agent_outcome = "plan_ok")
               /\ result.success = result.chore_result.success

\* a second attempt (c = 1) whose planning phase succeeds
C3_Witness ==
    /\ C3_Case
    /\ CountBefore = 1
    /\ call.agent_outcome = "plan_ok"
    /\ result.attempt_count = 2

\* C4: APPROVED with auto-merge enabled and a merge that returns true: the
\* result has action "approved", success true and merge_attempted true, and
\* afterwards no linked issue has an entry in the attempt map.
C4_MergeResets ==
    (/\ GotVerdict("APPROVED")
     /\ config.auto_merge_on_approval
     /\ call.merge_outcome = "rc0")
    => /\ ~raised
       /\ result.action = "approved"
       /\ result.success = TRUE
       /\ "merge_attempted" \in DOMAIN result
       /\ result.merge_attempted = TRUE
       /\ merge_calls = 1
       /\ \A i \in LinkedIssues :
            /\ i \notin DOMAIN reimplement_attempts
            /\ check_reimplement_attempts(reimplement_attempts, i,
                   config.max_reimplement_attempts).count = 0

\* a merged PR linked to two issues that both had attempts counted
C4_Witness ==
    /\ GotVerdict("APPROVED")
    /\ config.auto_merge_on_approval
    /\ call.merge_outcome = "rc0"
    /\ Len(call.issue_numbers) = 2
    /\ \A i \in LinkedIssues : i \in DOMAIN call.before /\ call.before[i] > 0
    /\ result.success = TRUE

\* C5: APPROVED with auto-merge enabled and a merge that returns false: the
\* action is still "approved", with merge_attempted true and success false,
\* a failure comment is posted to every linked issue, and the attempt map is
\* unchanged.
C5_MergeFailure ==
    (/\ GotVerdict("APPROVED")
     /\ config.auto_merge_on_approval
     /\ call.merge_outcome \in MergeOutcomes \ {"rc0"})
    => /\ ~raised
       /\ result.action = "approved"
       /\ result.success = FALSE
       /\ "merge_attempted" \in DOMAIN result
       /\ result.merge_attempted = TRUE
       /\ merge_calls = 1
       /\ comments = [i \in 1..Len(call.issue_numbers) |->
                        [issue |-> call.issue_numbers[i],
                         kind |-> "merge_failed"]]
       /\ reimplement_attempts = call.before

\* a failed merge of a PR linked to two issues with attempts counted
C5_Witness ==
    /\ GotVerdict("APPROVED")
    /\ config.auto_merge_on_approval
    /\ call.merge_outcome = "rc_nonzero"
    /\ Len(call.issue_numbers) = 2
    /\ \E i \in LinkedIssues : i \in DOMAIN call.before
    /\ Len(comments) = 2
    /\ result.success = FALSE

\* the three cases of C6
C6_Case ==
    \/ GotVerdict("NEEDS_DISCUSSION")
    \/ GotVerdict("APPROVED") /\ ~config.auto_merge_on_approval
    \/ GotVerdict("CHANGES_REQUESTED") /\ ~config.auto_reimplement_on_changes

\* C6: NEEDS_DISCUSSION, or APPROVED with auto-merge disabled, or
\* CHANGES_REQUESTED with auto-reimplement disabled: the result is
\* action "comment_only", success true, with neither merge_attempted nor
\* reimplementation_attempted, and there is no merge call, no agent call, no
\* comment and no change of the attempt map.
C6_CommentOnly ==
    C6_Case
    => /\ ~raised
       /\ result.action = "comment_only"
       /\ result.success = TRUE
       /\ "merge_attempted" \notin DOMAIN result
       /\ "reimplementation_attempted" \notin DOMAIN result
       /\ merge_calls = 0
       /\ agent_calls = 0
       /\ comments = <<>>
       /\ reimplement_attempts = call.before

\* an approved review held back by the disabled auto-merge policy, for a PR
\* with linked issues and attempts counted
C6_Witness ==
    /\ GotVerdict("APPROVED")
    /\ ~config.auto_merge_on_approval
    /\ call.issue_numbers # <<>>
    /\ call.before # EmptyDict
    /\ result.action = "comment_only"

\* C7: a repository identifier that does not have exactly one "/" gives an
\* error result at once, whatever the verdict: action "error", success false,
\* error set, no merge call, no agent call, no comment, attempt map unchanged.
C7_InvalidRepo ==
    (Called /\ Separators # 1)
    => /\ ~raised
       /\ result.action = "error"
       /\ result.success = FALSE
       /\ "error" \in DOMAIN result
       /\ merge_calls = 0
       /\ agent_calls = 0
       /\ comments = <<>>
       /\ reimplement_attempts = call.before

\* two separators, an approved review, linked issues with attempts counted
C7_Witness ==
    /\ Called
    /\ Separators = 2
    /\ call.approval_status = "APPROVED"
    /\ config.auto_merge_on_approval
    /\ call.issue_numbers # <<>>
    /\ call.before # EmptyDict
    /\ result.action = "error"

\* C8: no exception raised by the merge call, the re-implementation call or a
\* comment post leaves handle_review_results: a dict is always returned, and
\* when the re-implementation raised it has success false and the error.
C8_NoPropagation ==
    Called
    => /\ ~raised
       /\ result # NoResult
       /\ "action" \in DOMAIN result
       /\ call.agent_outcome = "raise"
          => /\ result.success = FALSE
             /\ "error" \in DOMAIN result

\* the re-implementation call raised
C8_Witness ==
    /\ Called
    /\ call.agent_outcome = "raise"
    /\ agent_calls = 1
    /\ result.success = FALSE

----------------------------------------------------------------------------
(* The deduplication cache as a state machine *)

\* the clock runs up to MaxTime
MaxTime == 122

\* the clock advances by a little less than a window, a window, or a little
\* more, so that ages below, at and above the window all occur
ClockSteps ==
    {DEDUP_WINDOW_SECONDS - 1, DEDUP_WINDOW_SECONDS, DEDUP_WINDOW_SECONDS + 1}

DedupInit ==
    /\ DedupIdle
    /\ EventsIdle
    /\ reimplement_attempts = EmptyDict
    /\ config = [auto_merge_on_approval |-> TRUE,
                 auto_reimplement_on_changes |-> TRUE,
                 max_reimplement_attempts |-> MaxAttemptsLimit]
    /\ call = NoCall
    /\ result = NoResult
    /\ raised = FALSE
    /\ merge_calls = 0
    /\ agent_calls = 0
    /\ comments = <<>>
    /\ started = [i \in IssueKeys |-> 0]

\* one call of should_trigger_workflow; time.time() is read once
ShouldTriggerWorkflowCall ==
    /\ dedup_call = NoDedupCall
    /\ \E issue_number \in Issues, workflow_type \in WorkflowTypes :
         \E run \in {should_trigger_workflow(workflow_dedup_cache,
                         issue_number, workflow_type, now)} :
           /\ workflow_dedup_cache' = run.cache
           /\ dedup_call' = [issue_number |-> issue_number,
                             workflow_type |-> workflow_type,
                             returned |-> run.returned,
                             at |-> now,
                             before |-> workflow_dedup_cache,
                             history |-> last_true]
           /\ last_true' = IF run.returned
                           THEN Put(last_true,
                                    <<issue_number, workflow_type>>, now)
                           ELSE last_true
           /\ UNCHANGED <<now, review_vars, event_vars,
                   more_vars>>

\* the caller has taken the returned value
DedupCallReturns ==
    /\ dedup_call # NoDedupCall
    /\ dedup_call' = NoDedupCall
    /\ UNCHANGED <<workflow_dedup_cache, now, last_true, review_vars,
                   event_vars,
                   more_vars>>

\* time passes between two calls; the clock never goes back
Tick ==
    /\ dedup_call = NoDedupCall
    /\ \E d \in ClockSteps :
         /\ now + d <= MaxTime
         /\ now' = now + d
    /\ UNCHANGED <<workflow_dedup_cache, dedup_call, last_true, review_vars,
                   event_vars,
                   more_vars>>

DedupNext == ShouldTriggerWorkflowCall \/ DedupCallReturns \/ Tick

SpecDedup == DedupInit /\ [][DedupNext]_vars

----------------------------------------------------------------------------
(* Claims about the deduplication cache, checked under SpecDedup *)

DedupCalled == dedup_call # NoDedupCall

CalledKey == <<dedup_call.issue_number, dedup_call.workflow_type>>

DedupKeys == Issues \X WorkflowTypes

\* an earlier call for the key returned True less than a window before the
\* finished call
TriggeredWithinWindow(key) ==
    /\ key \in DOMAIN dedup_call.history
    /\ dedup_call.at - dedup_call.history[key] < DEDUP_WINDOW_SECONDS

\* C9: with a non-decreasing clock, a call returns False if and only if an
\* earlier call for the same key returned True less than
\* DEDUP_WINDOW_SECONDS before it; so a first call returns True, and two True
\* results for one key are at least DEDUP_WINDOW_SECONDS apart.
C9_DedupWindow ==
    DedupCalled
    => /\ dedup_call.returned = FALSE <=> TriggeredWithinWindow(CalledKey)
       /\ CalledKey \notin DOMAIN dedup_call.history
          => dedup_call.returned = TRUE
       /\ (dedup_call.returned = TRUE
           /\ CalledKey \in DOMAIN dedup_call.history)
          => /\ dedup_call.at - dedup_call.history[CalledKey]
                  >= DEDUP_WINDOW_SECONDS
             /\ last_true[CalledKey] - dedup_call.history[CalledKey]
                  >= DEDUP_WINDOW_SECONDS

\* a key triggers again exactly one window after its last trigger
C9_Witness ==
    /\ DedupCalled
    /\ dedup_call.returned = TRUE
    /\ CalledKey \in DOMAIN dedup_call.history
    /\ dedup_call.at - dedup_call.history[CalledKey] = DEDUP_WINDOW_SECONDS

\* C10: dedup keys are independent. A call for one key changes nothing for
\* any other key: an entry of another key that is within the window keeps its
\* timestamp, no entry of another key appears, the history of another key is
\* untouched, and so the answer a call for another key would get is the same
\* before and after.
C10_KeysIndependent ==
    DedupCalled
    => \A key \in DedupKeys \ {CalledKey} :
         /\ (/\ key \in DOMAIN dedup_call.before
             /\ dedup_call.at - dedup_call.before[key]
                  <= DEDUP_WINDOW_SECONDS)
            => /\ key \in DOMAIN workflow_dedup_cache
               /\ workflow_dedup_cache[key] = dedup_call.before[key]
         /\ key \in DOMAIN workflow_dedup_cache
            => /\ key \in DOMAIN dedup_call.before
               /\ workflow_dedup_cache[key] = dedup_call.before[key]
         /\ Get(last_true, key, -1) = Get(dedup_call.history, key, -1)

\* a call triggers for a key while the other kind of the same issue and the
\* same kind of another issue hold entries that are within the window
C10_Witness ==
    /\ DedupCalled
    /\ dedup_call.returned = TRUE
    /\ \E key \in DedupKeys :
         /\ key[1] = dedup_call.issue_number
         /\ key[2] # dedup_call.workflow_type
         /\ key \in DOMAIN dedup_call.before
         /\ dedup_call.at - dedup_call.before[key] < DEDUP_WINDOW_SECONDS
    /\ \E key \in DedupKeys :
         /\ key[1] # dedup_call.issue_number
         /\ key[2] = dedup_call.workflow_type
         /\ key \in DOMAIN dedup_call.before
         /\ dedup_call.at - dedup_call.before[key] < DEDUP_WINDOW_SECONDS

----------------------------------------------------------------------------
(* Issue webhook events: determine_workflow_for_issue, handle_issue_event *)

\* the five label names the router looks for, and one it ignores
LabelNames == {"bug", "implement", "feature", "chore", "plan", "question"}
\* labels on one issue
MaxLabels == 2
\* get_label_names(issue): the labels of an issue, in any order
LabelLists ==
    UNION {Perms(S) : S \in {T \in SUBSET LabelNames : Cardinality(T) <= MaxLabels}}
\* payload.action of an issue event
IssueActions == {"opened", "labeled", "closed", "reopened"}

\* Python's `x in list`
InList(x, list) == \E i \in 1..Len(list) : list[i] = x

\* mutation of WorkflowForLabels: feature is looked for before bug
WorkflowForLabels_FeatureFirst(labels) ==
    IF InList("feature", labels) THEN "chore"
    ELSE IF InList("bug", labels) THEN "chore_implement"
    ELSE IF InList("implement", labels) THEN "chore_implement"
    ELSE IF InList("chore", labels) \/ InList("plan", labels) THEN "chore"
    ELSE "None"

\* the if/elif chain over the labels; "None" when no label matches
WorkflowForLabels(labels) ==
    IF InList("bug", labels) THEN "chore_implement"
    ELSE IF InList("implement", labels) THEN "chore_implement"
    ELSE IF InList("feature", labels) THEN "chore"
    ELSE IF InList("chore", labels) \/ InList("plan", labels) THEN "chore"
    ELSE "None"

\* mutation of determine_workflow_for_issue: the deduplication result is ignored
determine_workflow_for_issue_NoDedup(cache, issue_number, action, labels, current_time) ==
    IF action \notin {"opened", "labeled"}
    THEN [workflow |-> "None", cache |-> cache]
    ELSE LET workflow_type == WorkflowForLabels(labels)
         IN  IF workflow_type = "None"
             THEN [workflow |-> "None", cache |-> cache]
             ELSE [workflow |-> workflow_type,
                   cache |-> should_trigger_workflow(cache, issue_number,
                                 workflow_type, current_time).cache]

\* mutation of determine_workflow_for_issue: every action is routed
determine_workflow_for_issue_AnyAction(cache, issue_number, action, labels, current_time) ==
    LET workflow_type == WorkflowForLabels(labels)
    IN  IF workflow_type = "None"
        THEN [workflow |-> "None", cache |-> cache]
        ELSE LET dedup == should_trigger_workflow(cache, issue_number,
                              workflow_type, current_time)
             IN  [workflow |-> IF dedup.returned THEN workflow_type ELSE "None",
                  cache |-> dedup.cache]

\* mutant: the lookup is made but the timestamp is not recorded
determine_workflow_for_issue_NoRecord(cache, issue_number, action, labels, current_time) ==
    IF action \notin {"opened", "labeled"}
    THEN [workflow |-> "None", cache |-> cache]
    ELSE LET workflow_type == WorkflowForLabels(labels)
         IN  IF workflow_type = "None"
             THEN [workflow |-> "None", cache |-> cache]
             ELSE [workflow |-> IF should_trigger_workflow(cache, issue_number,
                                       workflow_type, current_time).returned
                                THEN workflow_type ELSE "None",
                   cache |-> cache]

\* mutant: an event that is not routed still sweeps the expired entries
determine_workflow_for_issue_SweepsAlways(cache, issue_number, action, labels, current_time) ==
    LET swept == [key \in {k \in DOMAIN cache :
                              current_time - cache[k] <= DEDUP_WINDOW_SECONDS}
                    |-> cache[key]]
        workflow_type == WorkflowForLabels(labels)
    IN  IF action \notin {"opened", "labeled"} \/ workflow_type = "None"
        THEN [workflow |-> "None", cache |-> swept]
        ELSE LET dedup == should_trigger_workflow(cache, issue_number,
                              workflow_type, current_time)
             IN  [workflow |-> IF dedup.returned THEN workflow_type
                               ELSE "None",
                  cache |-> dedup.cache]

\* the workflow kind returned ("None" for None) and the cache afterwards
determine_workflow_for_issue(cache, issue_number, action, labels, current_time) ==
    IF action \notin {"opened", "labeled"}
    THEN [workflow |-> "None", cache |-> cache]
    ELSE LET workflow_type == WorkflowForLabels(labels)
         IN  IF workflow_type = "None"
             THEN [workflow |-> "None", cache |-> cache]
             ELSE LET dedup == should_trigger_workflow(cache, issue_number,
                                   workflow_type, current_time)
                  IN  [workflow |-> IF dedup.returned THEN workflow_type
                                    ELSE "None",
                       cache |-> dedup.cache]

\* how the awaited agent workflow can end: trigger_chore_workflow returns a
\* result with success or not, or raises; trigger_chore_implement_workflow
\* can also end with the plan made and the implementation failed
WorkflowOutcomes(workflow_type) ==
    IF workflow_type = "chore" THEN {"success", "failure", "raise"}
    ELSE {"success", "partial", "failure", "raise"}

\* the comment posted when the agent workflow has ended
CompletionComment(workflow_type, outcome) ==
    IF outcome = "raise" THEN "workflow_error"
    ELSE IF workflow_type = "chore"
    THEN IF outcome = "success" THEN "planning_complete" ELSE "planning_failed"
    ELSE IF outcome = "success" THEN "full_workflow_complete"
    ELSE IF outcome = "partial" THEN "partial_success"
    ELSE "workflow_failed"

\* the dict handle_issue_event returns after the agent workflow has ended
IssueResult(workflow_type, issue_number, outcome) ==
    IF outcome = "raise"
    THEN [workflow_triggered |-> TRUE, workflow_type |-> workflow_type,
          issue_number |-> issue_number, success |-> FALSE,
          error_type |-> "Exception"]
    ELSE IF workflow_type = "chore"
    THEN [workflow_triggered |-> TRUE, workflow_type |-> workflow_type,
          issue_number |-> issue_number, success |-> outcome = "success"]
    ELSE [workflow_triggered |-> TRUE, workflow_type |-> workflow_type,
          issue_number |-> issue_number,
          chore_success |-> outcome \in {"success", "partial"},
          implement_success |-> outcome = "success"]

\* handle_issue_event up to its first await: the router is consulted, and
\* either the handler returns at once or it posts the detection comment and
\* starts the agent workflow
HandleIssueEventCall(actions, label_lists) ==
    /\ issue_event = NoIssueEvent
    /\ \E issue_number \in Issues, action \in actions, labels \in label_lists :
         \E run \in {determine_workflow_for_issue(workflow_dedup_cache,
                         issue_number, action, labels, now)} :
           /\ workflow_dedup_cache' = run.cache
           /\ last_true' = IF run.workflow # "None"
                           THEN Put(last_true, <<issue_number, run.workflow>>, now)
                           ELSE last_true
           /\ issue_event' =
                [issue_number |-> issue_number, action |-> action,
                 labels |-> labels,
                 phase |-> IF run.workflow = "None" THEN "returned"
                           ELSE "awaiting",
                 workflow |-> run.workflow, outcome |-> "none",
                 agent_calls |-> IF run.workflow = "None" THEN 0 ELSE 1,
                 comments |-> IF run.workflow = "None" THEN <<>>
                              ELSE <<"workflow_detected">>,
                 result |-> IF run.workflow = "None"
                            THEN [workflow_triggered |-> FALSE,
                                  issue_number |-> issue_number]
                            ELSE NoResult,
                 at |-> now, before |-> workflow_dedup_cache,
                 history |-> last_true]
    /\ UNCHANGED <<now, dedup_call, review_vars, pr_event, tracker_call,
                   increments, tasks,
                   more_vars>>

\* the awaited agent workflow ends; the completion comment is posted and the
\* handler builds its result
IssueWorkflowCompletes ==
    /\ issue_event.phase = "awaiting"
    /\ \E outcome \in WorkflowOutcomes(issue_event.workflow) :
         issue_event' =
           [issue_event EXCEPT
              !.phase = "returned",
              !.outcome = outcome,
              !.comments = Append(@, CompletionComment(issue_event.workflow,
                                                       outcome)),
              !.result = IssueResult(issue_event.workflow,
                                     issue_event.issue_number, outcome)]
    /\ UNCHANGED <<dedup_vars, review_vars, pr_event, tracker_call,
                   increments, tasks,
                   more_vars>>

\* the webhook endpoint has taken the handler's result
IssueEventReturns ==
    /\ issue_event.phase = "returned"
    /\ issue_event' = NoIssueEvent
    /\ UNCHANGED <<dedup_vars, review_vars, pr_event, tracker_call,
                   increments, tasks,
                   more_vars>>

\* label lists of the events in SpecIssue: one per routing outcome, and one
\* where the label of a lower rank comes first
SampleLabelLists ==
    {<<"bug">>, <<"chore">>, <<"question">>, <<"feature", "implement">>}

\* the clock of SpecIssue runs to MaxEventTime
MaxEventTime == 61

\* time passes between two issue events
IssueTick ==
    /\ issue_event = NoIssueEvent
    /\ \E d \in ClockSteps :
         /\ now + d <= MaxEventTime
         /\ now' = now + d
    /\ UNCHANGED <<workflow_dedup_cache, dedup_call, last_true, review_vars,
                   event_vars,
                   more_vars>>

IssueNext ==
    \/ HandleIssueEventCall(IssueActions, SampleLabelLists)
    \/ IssueWorkflowCompletes
    \/ IssueEventReturns
    \/ IssueTick

\* issue events one after another, over a clock
SpecIssue == DedupInit /\ [][IssueNext]_vars

RouteNext ==
    \/ HandleIssueEventCall(IssueActions, LabelLists)
    \/ IssueWorkflowCompletes
    \/ IssueEventReturns

\* issue events with every label list, at one instant
SpecRoute == DedupInit /\ [][RouteNext]_vars

----------------------------------------------------------------------------
(* Claims on issue events *)

IssueEventHandled == issue_event.phase # "idle"

RoutedAction == issue_event.action \in {"opened", "labeled"}

\* the deduplication key of the event being handled
EventKey == <<issue_event.issue_number, WorkflowForLabels(issue_event.labels)>>

\* an earlier event of the same issue and kind was given its kind less than
\* a window ago
RecentTrigger ==
    /\ EventKey \in DOMAIN issue_event.history
    /\ issue_event.at - issue_event.history[EventKey] < DEDUP_WINDOW_SECONDS

\* C11: of two routed events for one issue whose labels map to one workflow
\* kind, less than 60 seconds apart, the first is given the kind and the
\* second is given None: for the second no agent workflow is started and no
\* comment is posted
C11_EventDedup ==
    (IssueEventHandled /\ RoutedAction /\ EventKey[2] # "None") =>
        IF RecentTrigger
        THEN /\ issue_event.workflow = "None"
             /\ issue_event.phase = "returned"
             /\ issue_event.result["workflow_triggered"] = FALSE
             /\ issue_event.agent_calls = 0
             /\ issue_event.comments = <<>>
        ELSE /\ issue_event.workflow = EventKey[2]
             /\ issue_event.agent_calls = 1
             /\ Len(issue_event.comments) >= 1

\* a second event, with other labels of the same kind, 59 seconds after the
\* first
C11_Witness ==
    /\ IssueEventHandled
    /\ RoutedAction
    /\ issue_event.labels = <<"feature", "implement">>
    /\ RecentTrigger
    /\ issue_event.at - issue_event.history[EventKey] = DEDUP_WINDOW_SECONDS - 1
    /\ issue_event.workflow = "None"

\* the order in which the labels are looked for, and the kind of each
LabelPriority == <<"bug", "implement", "feature", "chore", "plan">>
KindOfLabel(label) ==
    IF label \in {"bug", "implement"} THEN "chore_implement" ELSE "chore"

\* the rank of the first label of LabelPriority the list holds, 0 if none
FirstMatch(labels) ==
    LET ranks == {i \in 1..Len(LabelPriority) : InList(LabelPriority[i], labels)}
    IN  IF ranks = {} THEN 0
        ELSE CHOOSE i \in ranks : \A j \in ranks : i <= j

\* C12: with an empty deduplication cache, a routed event is given the kind
\* of the first of bug, implement, feature, chore, plan among its labels,
\* whatever the order of the labels, and None when it has none of them
C12_LabelPriority ==
    (IssueEventHandled /\ RoutedAction /\ issue_event.before = EmptyDict) =>
        LET rank == FirstMatch(issue_event.labels)
        IN  IF rank = 0 THEN issue_event.workflow = "None"
            ELSE issue_event.workflow = KindOfLabel(LabelPriority[rank])

\* feature listed before bug: the kind of bug wins
C12_Witness ==
    /\ IssueEventHandled
    /\ RoutedAction
    /\ issue_event.before = EmptyDict
    /\ issue_event.labels = <<"feature", "bug">>
    /\ issue_event.workflow = "chore_implement"

\* C13: an event whose action is neither opened nor labeled is given None
\* whatever its labels, and handle_issue_event starts no workflow for it
C13_OtherActions ==
    (IssueEventHandled /\ ~RoutedAction) =>
        /\ issue_event.workflow = "None"
        /\ issue_event.phase = "returned"
        /\ issue_event.result["workflow_triggered"] = FALSE
        /\ issue_event.agent_calls = 0
        /\ issue_event.comments = <<>>
        /\ workflow_dedup_cache = issue_event.before

\* a closed event of an issue labelled bug
C13_Witness ==
    /\ IssueEventHandled
    /\ issue_event.action = "closed"
    /\ InList("bug", issue_event.labels)
    /\ issue_event.result["workflow_triggered"] = FALSE

----------------------------------------------------------------------------
(* Pull-request webhook events: handle_pull_request_event *)

\* a PR body is a list of phrases "<word> #<number>"
BodyWords == {"Closes", "see"}
\* phrases in one PR body
MaxReferences == 2
Phrases == [word : BodyWords, number : Issues]

RECURSIVE ListsUpTo(_, _)
\* the lists over S of length at most n
ListsUpTo(S, n) ==
    IF n = 0 THEN {<<>>}
    ELSE LET shorter == ListsUpTo(S, n - 1)
         IN  shorter \cup {<<x>> \o l : x \in S, l \in {k \in shorter : Len(k) = n - 1}}

\* payload.pull_request["body"]; the empty list stands for "" and for None
PRBodies == ListsUpTo(Phrases, MaxReferences)
\* payload.action of a pull-request event
PRActions == {"opened", "synchronize", "closed"}

\* re.IGNORECASE on the keyword
LowerWord(word) ==
    CASE word = "Closes" -> "closes"
      [] OTHER -> word

\* (?:closes|fixes|resolves)\s+#(\d+)
IsReference(phrase) == LowerWord(phrase.word) \in {"closes", "fixes", "resolves"}

RECURSIVE ReferencedInOrder(_)
\* the numbers of the references of a body, one per reference, in body order
ReferencedInOrder(pr_body) ==
    IF pr_body = <<>> THEN <<>>
    ELSE IF IsReference(Head(pr_body))
    THEN <<Head(pr_body).number>> \o ReferencedInOrder(Tail(pr_body))
    ELSE ReferencedInOrder(Tail(pr_body))

\* mutant: the matches are returned as found, duplicates included
extract_issue_references_KeepDuplicates(pr_body) ==
    {ReferencedInOrder(pr_body)}

\* mutation of extract_issue_references: every #<number> counts
extract_issue_references_AnyMention(pr_body) ==
    Perms({pr_body[i].number : i \in 1..Len(pr_body)})

\* list(set(int(match) for match in matches)): the numbers referenced,
\* without duplicates, in the order the set iterates
extract_issue_references(pr_body) ==
    Perms({pr_body[i].number : i \in {j \in 1..Len(pr_body) : IsReference(pr_body[j])}})

\* for issue_number in issue_numbers: make_github_issue_comment(...)
CommentAll(issue_numbers, kind) ==
    [i \in 1..Len(issue_numbers) |-> [issue |-> issue_numbers[i], kind |-> kind]]

\* how the awaited review workflow can end: with output that carries a
\* verdict, or by an exception
ReviewOutcomes == ApprovalStatuses \cup {"raise"}

\* the outcomes of the collaborators handle_review_results consults
CollaboratorOutcomes(attempts, cfg, args) ==
    LET branch == Decision(attempts, cfg, args)
    IN  {args @@ [merge_outcome |-> m, agent_outcome |-> a,
                  comment_outcome |-> c] :
           m \in (IF branch = "merge" THEN MergeOutcomes ELSE {"none"}),
           a \in (IF branch = "reimplement" THEN AgentOutcomes ELSE {"none"}),
           c \in (IF branch \in {"merge", "max_attempts_reached", "reimplement"}
                  THEN CommentOutcomes ELSE {"none"})}

\* handle_pull_request_event up to its first await: the early returns, then
\* the "review started" comments and the start of the review workflow
HandlePullRequestEventCall ==
    /\ pr_event = NoPREvent
    /\ \E action \in PRActions, pr_body \in PRBodies, repo \in RepoNames :
         \E issue_numbers \in extract_issue_references(pr_body) :
           LET starts == /\ action \in {"opened", "synchronize"}
                         /\ issue_numbers # <<>>
                         /\ RepoParses(repo)
           IN  pr_event' =
                 [action |-> action, pr_body |-> pr_body,
                  repo_full_name |-> repo,
                  phase |-> IF starts THEN "reviewing" ELSE "returned",
                  issue_numbers |-> IF action \in {"opened", "synchronize"}
                                    THEN issue_numbers ELSE <<>>,
                  review_outcome |-> "none",
                  review_success |-> FALSE, action_outcome |-> "none",
                  review_calls |-> IF starts THEN 1 ELSE 0,
                  action_calls |-> 0,
                  comments |-> IF starts
                               THEN CommentAll(issue_numbers, "review_started")
                               ELSE <<>>,
                  result |-> IF starts THEN NoResult
                             ELSE [workflow_triggered |-> FALSE,
                                   action |-> action]]
    /\ UNCHANGED <<review_vars, dedup_vars, issue_event, tracker_call,
                   increments, tasks,
                   more_vars>>

\* how the awaited handle_review_results can end: it returns its dict, or
\* raises where it has no try (get_config, before any effect)
ActionOutcomes == {"returns", "raise"}

\* mutant: an exception of handle_review_results is taken for an exception
\* of the review workflow
ReviewActionFailed_AsReviewError(review_success) ==
    [workflow_triggered |-> TRUE, workflow_type |-> "review",
     success |-> FALSE, error_message |-> "exception"]

\* the dict returned when the review workflow raised
ReviewFailed ==
    [workflow_triggered |-> TRUE, workflow_type |-> "review",
     success |-> FALSE, error_message |-> "exception"]

\* the dict returned when handle_review_results raised
ReviewActionFailed(review_success) ==
    [workflow_triggered |-> TRUE, workflow_type |-> "review",
     success |-> review_success, error_message |-> "review_result",
     review_action_error |-> "exception"]

\* the dict returned when handle_review_results returned
ReviewActed(review_success, action_result) ==
    [workflow_triggered |-> TRUE, workflow_type |-> "review",
     success |-> review_success, error_message |-> "review_result",
     review_action |-> action_result]

\* the awaited review workflow ends: the results are posted and
\* handle_review_results acts on the verdict, or the error is reported
PullRequestReviewEnds ==
    /\ pr_event.phase = "reviewing"
    /\ \E outcome \in ReviewOutcomes :
         IF outcome = "raise"
         THEN /\ pr_event' =
                   [pr_event EXCEPT
                      !.phase = "returned",
                      !.review_outcome = outcome,
                      !.comments = @ \o CommentAll(pr_event.issue_numbers,
                                                   "review_error"),
                      !.result = ReviewFailed]
              /\ UNCHANGED <<reimplement_attempts, started>>
         ELSE \E review_success \in BOOLEAN, action_outcome \in ActionOutcomes :
              LET reviewed ==
                    [pr_event EXCEPT
                       !.phase = "returned",
                       !.review_outcome = outcome,
                       !.review_success = review_success,
                       !.action_outcome = action_outcome,
                       !.action_calls = 1,
                       !.comments = @ \o CommentAll(pr_event.issue_numbers,
                                                    "review_results")]
              IN
              IF action_outcome = "raise"
              THEN /\ pr_event' =
                        [reviewed EXCEPT
                           !.result = ReviewActionFailed(review_success)]
                   /\ UNCHANGED <<reimplement_attempts, started>>
              ELSE
              \E in \in CollaboratorOutcomes(reimplement_attempts, config,
                           [approval_status |-> outcome,
                            issue_numbers |-> pr_event.issue_numbers,
                            repo_full_name |-> pr_event.repo_full_name]) :
                \E run \in {HandleReviewResults(reimplement_attempts,
                                                config, in)} :
                  /\ pr_event' =
                       [reviewed EXCEPT
                          !.comments = @ \o run.comments,
                          !.result =
                             IF run.raised
                             THEN ReviewActionFailed(review_success)
                             ELSE ReviewActed(review_success, run.result)]
                  /\ reimplement_attempts' = run.attempts
                  /\ started' = [i \in IssueKeys |->
                                   IF i \in run.reset THEN 0
                                   ELSE IF i \in run.started THEN started[i] + 1
                                   ELSE started[i]]
    /\ UNCHANGED <<config, call, result, raised, merge_calls, agent_calls,
                   comments, dedup_vars, issue_event, tracker_call,
                   increments, tasks,
                   more_vars>>

\* the webhook endpoint has taken the handler's result
PullRequestEventReturns ==
    /\ pr_event.phase = "returned"
    /\ pr_event' = NoPREvent
    /\ UNCHANGED <<review_vars, dedup_vars, issue_event, tracker_call,
                   increments, tasks,
                   more_vars>>

PRNext ==
    \/ HandlePullRequestEventCall
    \/ PullRequestReviewEnds
    \/ PullRequestEventReturns

\* pull-request events one after another
SpecPR == DedupInit /\ [][PRNext]_vars

----------------------------------------------------------------------------
(* Claims on pull-request events *)

PRHandled == pr_event.phase # "idle"

\* the body holds at least one closes/fixes/resolves #<number> reference
HasReference ==
    \E i \in 1..Len(pr_event.pr_body) :
        /\ pr_event.pr_body[i].word = "Closes"
        /\ pr_event.pr_body[i].number \in Issues

ReviewAction == pr_event.action \in {"opened", "synchronize"}

\* C14: a review cycle starts only for the actions opened and synchronize
\* with at least one issue reference in the PR body; otherwise the handler
\* returns workflow_triggered false, with no comment posted, no review agent
\* started and no call of handle_review_results
C14_ReviewOnlyWhenLinked ==
    PRHandled =>
        /\ (pr_event.review_calls > 0 \/ pr_event.action_calls > 0
              \/ pr_event.comments # <<>>) =>
               (ReviewAction /\ HasReference)
        /\ ~(ReviewAction /\ HasReference) =>
               /\ pr_event.phase = "returned"
               /\ pr_event.result["workflow_triggered"] = FALSE
               /\ pr_event.comments = <<>>
               /\ pr_event.review_calls = 0
               /\ pr_event.action_calls = 0

\* a synchronize event whose body mentions an issue without a keyword
C14_Witness ==
    /\ PRHandled
    /\ pr_event.action = "synchronize"
    /\ pr_event.pr_body = <<[word |-> "see", number |-> 1]>>
    /\ pr_event.result["workflow_triggered"] = FALSE

----------------------------------------------------------------------------
(* The attempt tracker called directly *)

\* counts and max_attempts arguments go up to MaxCount
MaxCount == 3

\* check_reimplement_attempts(issue_number, max_attempts)
TrackerCheck ==
    /\ tracker_call = NoTrackerCall
    /\ \E issue_number \in Issues, max_attempts \in 1..MaxCount :
         \E ret \in {check_reimplement_attempts(reimplement_attempts,
                         issue_number, max_attempts)} :
           tracker_call' = [op |-> "check", issue_number |-> issue_number,
                            max_attempts |-> max_attempts,
                            allowed |-> ret.allowed, count |-> ret.count,
                            raised |-> FALSE,
                            before |-> reimplement_attempts]
    /\ UNCHANGED <<review_vars, dedup_vars, issue_event, pr_event,
                   increments, tasks,
                   more_vars>>

\* increment_reimplement_attempts(issue_number); count is the value returned
TrackerIncrement ==
    /\ tracker_call = NoTrackerCall
    /\ \E issue_number \in Issues :
         /\ Get(reimplement_attempts, issue_number, 0) < MaxCount
         /\ reimplement_attempts' =
              increment_reimplement_attempts(reimplement_attempts, issue_number)
         /\ tracker_call' = [op |-> "increment", issue_number |-> issue_number,
                             max_attempts |-> 0, allowed |-> FALSE,
                             count |-> reimplement_attempts'[issue_number],
                             raised |-> FALSE,
                             before |-> reimplement_attempts]
         /\ increments' = [increments EXCEPT ![issue_number] = @ + 1]
    /\ UNCHANGED <<config, call, result, raised, merge_calls, agent_calls,
                   comments, started, dedup_vars, issue_event, pr_event, tasks,
                   more_vars>>

\* reset_reimplement_attempts(issue_number)
TrackerReset ==
    /\ tracker_call = NoTrackerCall
    /\ \E issue_number \in Issues :
         \E out \in {ResetOutcome(reimplement_attempts, issue_number)} :
           /\ reimplement_attempts' = out.attempts
           /\ tracker_call' = [op |-> "reset", issue_number |-> issue_number,
                               max_attempts |-> 0, allowed |-> FALSE,
                               count |-> 0, raised |-> out.raised,
                               before |-> reimplement_attempts]
           /\ increments' = [increments EXCEPT ![issue_number] = 0]
    /\ UNCHANGED <<config, call, result, raised, merge_calls, agent_calls,
                   comments, started, dedup_vars, issue_event, pr_event, tasks,
                   more_vars>>

\* the caller has taken the returned value
TrackerReturns ==
    /\ tracker_call # NoTrackerCall
    /\ tracker_call' = NoTrackerCall
    /\ UNCHANGED <<review_vars, dedup_vars, issue_event, pr_event,
                   increments, tasks,
                   more_vars>>

TrackerNext == TrackerCheck \/ TrackerIncrement \/ TrackerReset \/ TrackerReturns

\* any sequence of calls of the three tracker functions
SpecTracker == DedupInit /\ [][TrackerNext]_vars

----------------------------------------------------------------------------
(* Claims on the attempt tracker *)

TrackerIssue == tracker_call.issue_number

\* C15: check returns the stored count (0 without an entry) and allowed iff
\* count < max, and leaves the map as it was, creating no entry; with max 3
\* it returns (false, 3) after exactly 3 increments and (true, 0) after a
\* reset
C15_CheckIsPure ==
    tracker_call.op = "check" =>
        /\ tracker_call.count = IF TrackerIssue \in DOMAIN tracker_call.before
                                THEN tracker_call.before[TrackerIssue] ELSE 0
        /\ tracker_call.count = increments[TrackerIssue]
        /\ tracker_call.allowed <=> tracker_call.count < tracker_call.max_attempts
        /\ reimplement_attempts = tracker_call.before
        /\ DOMAIN reimplement_attempts = DOMAIN tracker_call.before
        /\ (tracker_call.max_attempts = 3 /\ increments[TrackerIssue] = 3) =>
               (~tracker_call.allowed /\ tracker_call.count = 3)
        /\ increments[TrackerIssue] = 0 =>
               (tracker_call.allowed /\ tracker_call.count = 0)

\* check with max 3 after exactly three increments
C15_Witness ==
    /\ tracker_call.op = "check"
    /\ tracker_call.max_attempts = 3
    /\ increments[TrackerIssue] = 3
    /\ ~tracker_call.allowed

\* C16: a count changes only by an increment, which raises it by exactly 1
\* and returns the new value, or by a reset, which removes the entry; a reset
\* of an absent issue raises no error and changes nothing
C16_TrackerSteps ==
    tracker_call.op # "none" =>
        /\ \A j \in IssueKeys :
             LET old == Get(tracker_call.before, j, 0)
                 new == Get(reimplement_attempts, j, 0)
             IN  new # old =>
                   /\ j = TrackerIssue
                   /\ \/ tracker_call.op = "increment" /\ new = old + 1
                      \/ tracker_call.op = "reset" /\ new = 0
        /\ tracker_call.op = "increment" =>
             /\ TrackerIssue \in DOMAIN reimplement_attempts
             /\ reimplement_attempts[TrackerIssue] =
                  Get(tracker_call.before, TrackerIssue, 0) + 1
             /\ tracker_call.count = reimplement_attempts[TrackerIssue]
        /\ tracker_call.op = "reset" =>
             /\ TrackerIssue \notin DOMAIN reimplement_attempts
             /\ ~tracker_call.raised
             /\ TrackerIssue \notin DOMAIN tracker_call.before =>
                  reimplement_attempts = tracker_call.before

\* a reset of an issue that has no entry, while another issue has one
C16_Witness ==
    /\ tracker_call.op = "reset"
    /\ TrackerIssue \notin DOMAIN tracker_call.before
    /\ tracker_call.before # EmptyDict
    /\ ~tracker_call.raised

\* C17: an increment or a reset of one issue leaves the entry of every other
\* issue as it was
C17_IssuesSeparate ==
    tracker_call.op \in {"increment", "reset"} =>
        \A j \in Issues \ {TrackerIssue} :
            /\ j \in DOMAIN reimplement_attempts <=> j \in DOMAIN tracker_call.before
            /\ Get(reimplement_attempts, j, 0) = Get(tracker_call.before, j, 0)

\* a reset of one issue while another issue has the count 2
C17_Witness ==
    /\ tracker_call.op = "reset"
    /\ TrackerIssue \in DOMAIN tracker_call.before
    /\ \E j \in Issues \ {TrackerIssue} :
         /\ Get(tracker_call.before, j, 0) = 2
         /\ Get(reimplement_attempts, j, 0) = 2

----------------------------------------------------------------------------
(* Claims on the max-attempts state of the remediation orchestrator *)

\* the step is a call that merged a PR linked to issue i, which resets i
MergeResets(i) ==
    /\ call'.branch = "merge"
    /\ merge_pull_request(call'.merge_outcome)
    /\ \E k \in 1..Len(call'.issue_numbers) : call'.issue_numbers[k] = i

\* the step is a call that got CHANGES_REQUESTED with primary issue i
ChangesRequestedFor(i) ==
    /\ call = NoCall
    /\ call' # NoCall
    /\ call'.approval_status = "CHANGES_REQUESTED"
    /\ RepoParses(call'.repo_full_name)
    /\ PrimaryIssue(call'.issue_numbers) = i

\* C18: once the count of an issue has reached max_reimplement_attempts, it
\* stays there until a reset, and until then every CHANGES_REQUESTED review
\* with that primary issue returns the action "max_attempts_reached", which
\* is neither "error" nor the action of a failed re-implementation, and
\* starts no agent
C18_TerminalUntilReset ==
    [][\A i \in IssueKeys :
         Get(reimplement_attempts, i, 0) >= config.max_reimplement_attempts =>
           /\ \/ Get(reimplement_attempts', i, 0)
                   >= config.max_reimplement_attempts
              \/ MergeResets(i)
           /\ ChangesRequestedFor(i) =>
                /\ "action" \in DOMAIN result'
                /\ result'["action"] = "max_attempts_reached"
                /\ result'["action"] \notin {"error", "changes_requested"}
                /\ result'["success"] = FALSE
                /\ agent_calls' = 0
                /\ reimplement_attempts' = reimplement_attempts]_vars

\* a review refused for a PR linked to two issues, the primary one at the
\* maximum
C18_Witness ==
    /\ GotVerdict("CHANGES_REQUESTED")
    /\ Len(call.issue_numbers) = 2
    /\ CountBefore = config.max_reimplement_attempts
    /\ started[PrimaryIssue(call.issue_numbers)] = config.max_reimplement_attempts
    /\ result.action = "max_attempts_reached"
    /\ agent_calls = 0

----------------------------------------------------------------------------
(* Reviews, and issues closed and re-opened *)

\* the issue events a manual close and re-open deliver
LifecycleActions == {"closed", "reopened"}

\* reviews and issue events, handled one after another
LifecycleNext ==
    \/ issue_event = NoIssueEvent /\ HandleReviewResultsCall
    \/ ReviewCallReturns
    \/ call = NoCall /\ HandleIssueEventCall(LifecycleActions, SampleLabelLists)
    \/ IssueEventReturns

SpecLifecycle == DedupInit /\ [][LifecycleNext]_vars

\* C19: when the re-open of an issue has been handled, the issue has no
\* attempt count left, so its next CHANGES_REQUESTED review is allowed to
\* re-implement
C19_ReopenResets ==
    (issue_event.phase = "returned" /\ issue_event.action = "reopened") =>
        /\ issue_event.issue_number \notin DOMAIN reimplement_attempts
        /\ check_reimplement_attempts(reimplement_attempts,
               issue_event.issue_number,
               config.max_reimplement_attempts).allowed

----------------------------------------------------------------------------
(* Concurrent handle_review_results coroutines on one event loop *)

\* the statements of the CHANGES_REQUESTED path that touch the attempt map
\* or suspend the coroutine, in program order
ReimplementPath ==
    <<"check_reimplement_attempts", "increment_reimplement_attempts",
      "trigger_reimplementation", "finish">>

\* mutant: the coroutine is also suspended after the check
IsAwait_AfterCheck(stmt) ==
    stmt \in {"check_reimplement_attempts", "trigger_reimplementation"}

\* the statements that are await expressions: the event loop may run other
\* coroutines there and nowhere else
IsAwait(stmt) == stmt = "trigger_reimplementation"

\* one statement of the path, run by a coroutine at task.pc; pc 0 is "not
\* running"; launched: the re-implementation agent was started
Exec(stmt, attempts, cfg, task) ==
    LET primary_issue == PrimaryIssue(task.issue_numbers)
        next == [task EXCEPT !.pc = @ + 1]
        done == [task EXCEPT !.pc = 0, !.issue_numbers = <<>>]
    IN  CASE stmt = "check_reimplement_attempts" ->
               IF check_reimplement_attempts(attempts, primary_issue,
                      cfg.max_reimplement_attempts).allowed
               THEN [attempts |-> attempts, task |-> next, launched |-> {}]
               ELSE [attempts |-> attempts, task |-> done, launched |-> {}]
          [] stmt = "increment_reimplement_attempts" ->
               [attempts |-> increment_reimplement_attempts(attempts,
                                                            primary_issue),
                task |-> next, launched |-> {}]
          [] stmt = "trigger_reimplementation" ->
               [attempts |-> attempts, task |-> next,
                launched |-> {primary_issue}]
          [] stmt = "finish" ->
               [attempts |-> attempts, task |-> done, launched |-> {}]

RECURSIVE RunToAwait(_, _, _)
\* the coroutine runs from task.pc until it has executed an await expression
\* or has returned
RunToAwait(attempts, cfg, task) ==
    IF task.pc = 0 THEN [attempts |-> attempts, task |-> task, launched |-> {}]
    ELSE LET stmt == ReimplementPath[task.pc]
             step == Exec(stmt, attempts, cfg, task)
         IN  IF IsAwait(stmt) THEN step
             ELSE LET rest == RunToAwait(step.attempts, cfg, step.task)
                  IN  [attempts |-> rest.attempts, task |-> rest.task,
                       launched |-> step.launched \cup rest.launched]

\* issue_numbers of the concurrent calls: at most one linked issue
TaskIssueLists == {l \in IssueLists : Len(l) <= 1}

\* a coroutine is created for a review and runs to its first await; the
\* APPROVED and the comment-only paths have no await and run to their end
TaskStarts(t) ==
    /\ tasks[t].pc = 0
    /\ \E status \in ApprovalStatuses, issue_numbers \in TaskIssueLists :
         LET args == [approval_status |-> status,
                      issue_numbers |-> issue_numbers,
                      repo_full_name |-> <<"o", "/", "r">>]
         IN  IF Decision(reimplement_attempts, config, args)
                  \in {"reimplement", "max_attempts_reached"}
             THEN \E run \in {RunToAwait(reimplement_attempts, config,
                                  [pc |-> 1, issue_numbers |-> issue_numbers])} :
                    /\ reimplement_attempts' = run.attempts
                    /\ tasks' = [tasks EXCEPT ![t] = run.task]
                    /\ started' = [i \in IssueKeys |->
                                     IF i \in run.launched THEN started[i] + 1
                                     ELSE started[i]]
             ELSE \E in \in CollaboratorOutcomes(reimplement_attempts,
                                                 config, args) :
                    \E run \in {HandleReviewResults(reimplement_attempts,
                                                    config, in)} :
                      /\ reimplement_attempts' = run.attempts
                      /\ started' = [i \in IssueKeys |->
                                       IF i \in run.reset THEN 0
                                       ELSE started[i]]
                      /\ UNCHANGED tasks
    /\ UNCHANGED <<config, call, result, raised, merge_calls, agent_calls,
                   comments, dedup_vars, issue_event, pr_event, tracker_call,
                   increments,
                   more_vars>>

\* the event loop resumes a suspended coroutine, which runs to its next
\* await or to its end
TaskResumes(t) ==
    /\ tasks[t].pc # 0
    /\ \E run \in {RunToAwait(reimplement_attempts, config, tasks[t])} :
         /\ reimplement_attempts' = run.attempts
         /\ tasks' = [tasks EXCEPT ![t] = run.task]
         /\ started' = [i \in IssueKeys |->
                          IF i \in run.launched THEN started[i] + 1
                          ELSE started[i]]
    /\ UNCHANGED <<config, call, result, raised, merge_calls, agent_calls,
                   comments, dedup_vars, issue_event, pr_event, tracker_call,
                   increments,
                   more_vars>>

ConcNext == \E t \in Tasks : TaskStarts(t) \/ TaskResumes(t)

\* coroutines of handle_review_results interleaved at their await points
SpecConc == DedupInit /\ [][ConcNext]_vars

\* C20: with coroutines interleaved only at await expressions, the count of
\* every issue equals the number of re-implementations started for it since
\* its last reset (no increment is lost), and it never exceeds
\* max_reimplement_attempts
C20_NoLostIncrement ==
    \A i \in IssueKeys :
        /\ Get(reimplement_attempts, i, 0) = started[i]
        /\ Get(reimplement_attempts, i, 0) <= config.max_reimplement_attempts

\* two coroutines wait for the agent for the same issue, whose count is at
\* the maximum
C20_Witness ==
    \E t1, t2 \in Tasks :
        /\ t1 # t2
        /\ tasks[t1].pc # 0
        /\ tasks[t2].pc # 0
        /\ tasks[t1].issue_numbers = <<1>>
        /\ tasks[t2].issue_numbers = <<1>>
        /\ Get(reimplement_attempts, 1, 0) = config.max_reimplement_attempts
        /\ started[1] = config.max_reimplement_attempts

----------------------------------------------------------------------------
(* Concurrent handle_issue_event coroutines on one event loop *)

\* label lists of the concurrent events: two that map to one workflow kind
RoutedLabelLists == {<<"bug">>, <<"implement">>}

\* a coroutine is created for an opened or labeled event and runs to its
\* first await, the agent workflow: the router with its deduplication lookup
\* and the recording of the timestamp, then the detection comment. A
\* suppressed event returns without an await
IssueTaskStarts(t) ==
    /\ issue_tasks[t].pc = "idle"
    /\ \E issue_number \in Issues, action \in {"opened", "labeled"},
          labels \in RoutedLabelLists :
         \E run \in {determine_workflow_for_issue(workflow_dedup_cache,
                         issue_number, action, labels, now)} :
           LET key == <<issue_number, WorkflowForLabels(labels)>>
           IN  /\ workflow_dedup_cache' = run.cache
               /\ last_true' = IF run.workflow # "None"
                               THEN Put(last_true, key, now) ELSE last_true
               /\ issue_tasks' =
                    [issue_tasks EXCEPT ![t] =
                       [pc |-> IF run.workflow = "None" THEN "returned"
                               ELSE "awaiting",
                        issue_number |-> issue_number,
                        workflow_type |-> key[2],
                        launched |-> run.workflow # "None",
                        recent |-> /\ key \in DOMAIN last_true
                                   /\ now - last_true[key]
                                        < DEDUP_WINDOW_SECONDS,
                        at |-> now]]
    /\ UNCHANGED <<now, dedup_call, review_vars, event_vars, other_vars, ghost_vars>>

\* the awaited agent workflow of a coroutine ends, however it ends; the
\* completion comment is posted and the handler returns
IssueTaskCompletes(t) ==
    /\ issue_tasks[t].pc = "awaiting"
    /\ issue_tasks' = [issue_tasks EXCEPT ![t] = IdleIssueTask]
    /\ UNCHANGED <<dedup_vars, review_vars, event_vars, other_vars, ghost_vars>>

\* the webhook endpoint has taken the result of a suppressed event
IssueTaskReturns(t) ==
    /\ issue_tasks[t].pc = "returned"
    /\ issue_tasks' = [issue_tasks EXCEPT ![t] = IdleIssueTask]
    /\ UNCHANGED <<dedup_vars, review_vars, event_vars, other_vars, ghost_vars>>

\* time passes, also while agent workflows run
IssueConcTick ==
    /\ \E d \in ClockSteps :
         /\ now + d <= MaxEventTime
         /\ now' = now + d
    /\ UNCHANGED <<workflow_dedup_cache, dedup_call, last_true, review_vars,
                   event_vars, more_vars>>

IssueConcNext ==
    \/ \E t \in Tasks :
         IssueTaskStarts(t) \/ IssueTaskCompletes(t) \/ IssueTaskReturns(t)
    \/ IssueConcTick

\* coroutines of handle_issue_event interleaved at their await points
SpecIssueConc == DedupInit /\ [][IssueConcNext]_vars

\* C21: of the coroutines of one issue and one workflow kind that start
\* within one window, exactly one starts an agent workflow: a coroutine
\* starts one if and only if none was started for its key less than 60
\* seconds before, and no two coroutines of one key that started less than
\* 60 seconds apart have both started one
C21_OneLaunchPerWindow ==
    /\ \A t \in Tasks :
         issue_tasks[t].pc # "idle" =>
           /\ issue_tasks[t].launched <=> ~issue_tasks[t].recent
           /\ issue_tasks[t].pc = "awaiting" <=> issue_tasks[t].launched
    /\ \A t1, t2 \in Tasks :
         (/\ t1 # t2
          /\ issue_tasks[t1].launched
          /\ issue_tasks[t2].launched
          /\ issue_tasks[t1].issue_number = issue_tasks[t2].issue_number
          /\ issue_tasks[t1].workflow_type = issue_tasks[t2].workflow_type
          /\ issue_tasks[t1].at <= issue_tasks[t2].at)
         => issue_tasks[t2].at - issue_tasks[t1].at >= DEDUP_WINDOW_SECONDS

\* while the agent workflow of one coroutine runs, a second coroutine of the
\* same key, started 59 seconds later, has been suppressed
C21_Witness ==
    \E t1, t2 \in Tasks :
        /\ issue_tasks[t1].pc = "awaiting"
        /\ issue_tasks[t2].pc = "returned"
        /\ ~issue_tasks[t2].launched
        /\ issue_tasks[t1].issue_number = issue_tasks[t2].issue_number
        /\ issue_tasks[t1].workflow_type = issue_tasks[t2].workflow_type
        /\ issue_tasks[t2].at - issue_tasks[t1].at = DEDUP_WINDOW_SECONDS - 1

----------------------------------------------------------------------------
(* The review parser: parse_review_status, extract_review_issues *)

\* a review text is a list of lines, a line a list of pieces; the lines the
\* parser tells apart: section headers, status tokens in their written
\* forms, prose and list items
ReviewLines ==
    {<<"##", "Approval", "Status">>, <<"##", "Summary">>,
     <<"##", "Recommendations">>, <<"##", "Issues", "Found">>,
     <<"###", "Critical">>, <<"###", "Minor">>,
     <<"APPROVED">>, <<"[", "APPROVED", "]">>,
     <<"CHANGES", " ", "REQUESTED">>, <<"[", "CHANGES", " ", "REQUESTED", "]">>,
     <<"CHANGES", "_", "REQUESTED">>,
     <<"NEEDS", " ", "DISCUSSION">>, <<"NEEDS", "_", "DISCUSSION">>,
     <<"text">>, <<"-", "text">>}

\* lines in one review text
MaxLines == 3
ReviewTexts == ListsUpTo(ReviewLines, MaxLines)

StartsWith(line, prefix) ==
    /\ Len(line) >= Len(prefix)
    /\ SubSeq(line, 1, Len(prefix)) = prefix

\* pattern in line, as a substring
ContainsSeq(line, pattern) ==
    \E i \in 0..(Len(line) - Len(pattern)) :
        SubSeq(line, i + 1, i + Len(pattern)) = pattern

RECURSIVE SkipSpaces(_)
\* \s* at the start of a line
SkipSpaces(line) ==
    IF line # <<>> /\ Head(line) = " " THEN SkipSpaces(Tail(line)) ELSE line

\* \[?\s*(APPROVED|CHANGES\s*REQUESTED|NEEDS\s*DISCUSSION) at the start of a
\* line, then .upper().replace(" ", "_") and the three substring tests;
\* "none" when the line does not match
MatchToken(line) ==
    LET unbracketed == IF line # <<>> /\ Head(line) = "[" THEN Tail(line)
                       ELSE line
        token == SkipSpaces(unbracketed)
    IN  IF StartsWith(token, <<"APPROVED">>) THEN "APPROVED"
        ELSE IF /\ StartsWith(token, <<"CHANGES">>)
                /\ StartsWith(SkipSpaces(Tail(token)), <<"REQUESTED">>)
        THEN "CHANGES_REQUESTED"
        ELSE IF /\ StartsWith(token, <<"NEEDS">>)
                /\ StartsWith(SkipSpaces(Tail(token)), <<"DISCUSSION">>)
        THEN "NEEDS_DISCUSSION"
        ELSE "none"

\* the lines where approval_pattern matches: the header, and a token on the
\* next line
ApprovalMatches(review_output) ==
    {i \in 1..(Len(review_output) - 1) :
        /\ review_output[i] = <<"##", "Approval", "Status">>
        /\ MatchToken(review_output[i + 1]) # "none"}

InText(review_output, pattern) ==
    \E i \in 1..Len(review_output) : ContainsSeq(review_output[i], pattern)

\* mutant: without a status the verdict is APPROVED
FallbackStatus_DefaultApproved(review_output) ==
    IF InText(review_output, <<"CHANGES", " ", "REQUESTED">>)
          \/ InText(review_output, <<"CHANGES", "_", "REQUESTED">>)
    THEN "CHANGES_REQUESTED"
    ELSE "APPROVED"

\* mutant: the scan looks for CHANGES REQUESTED before APPROVED
FallbackStatus_ChangesFirst(review_output) ==
    IF InText(review_output, <<"CHANGES", " ", "REQUESTED">>)
          \/ InText(review_output, <<"CHANGES", "_", "REQUESTED">>)
    THEN "CHANGES_REQUESTED"
    ELSE IF InText(review_output, <<"APPROVED">>) THEN "APPROVED"
    ELSE "NEEDS_DISCUSSION"

\* the substring scan used when approval_pattern does not match
FallbackStatus(review_output) ==
    IF InText(review_output, <<"APPROVED">>) THEN "APPROVED"
    ELSE IF InText(review_output, <<"CHANGES", " ", "REQUESTED">>)
            \/ InText(review_output, <<"CHANGES", "_", "REQUESTED">>)
    THEN "CHANGES_REQUESTED"
    ELSE "NEEDS_DISCUSSION"

\* re.search: the first match decides
ParseStatus(review_output) ==
    LET matches == ApprovalMatches(review_output)
    IN  IF matches # {}
        THEN MatchToken(review_output[(CHOOSE i \in matches :
                                          \A j \in matches : i <= j) + 1])
        ELSE FallbackStatus(review_output)

RECURSIVE TakeUntil(_, _)
\* the lines up to the first one that starts with one of the stops
TakeUntil(lines, stops) ==
    IF lines = <<>> \/ Head(lines)[1] \in stops THEN <<>>
    ELSE <<Head(lines)>> \o TakeUntil(Tail(lines), stops)

\* the lines after the first line equal to header; <<>> when there is none
AfterHeader(lines, header) ==
    LET at == {i \in 1..Len(lines) : lines[i] = header}
    IN  IF at = {} THEN <<>>
        ELSE SubSeq(lines, (CHOOSE i \in at : \A j \in at : i <= j) + 1,
                    Len(lines))

\* header\s*\n(.*?)(?=\n## ...|\Z): the lines after the header up to the
\* next line that starts with one of the stops. The lookahead wants the
\* newline before the stop and the pattern has consumed the one after the
\* header, so the line right after the header is captured whatever it is
Section(lines, header, stops) ==
    LET rest == AfterHeader(lines, header)
    IN  IF rest = <<>> THEN <<>>
        ELSE <<Head(rest)>> \o TakeUntil(Tail(rest), stops)

\* ###\s*severity\s*\n(.*?)(?=###|\n##|\Z): the lines after the severity
\* header up to the next heading
SeveritySection(lines, header) ==
    TakeUntil(AfterHeader(lines, header), {"##", "###"})

IsItem(line) == Len(line) >= 2 /\ Head(line) = "-"

RECURSIVE Items(_)
\* the numbered or bulleted items among the lines, without the bullet
Items(lines) ==
    IF lines = <<>> THEN <<>>
    ELSE IF IsItem(Head(lines)) THEN <<Tail(Head(lines))>> \o Items(Tail(lines))
    ELSE Items(Tail(lines))

\* (approval_status, summary, recommendations)
parse_review_status(review_output) ==
    [approval_status |-> ParseStatus(review_output),
     summary |-> Section(review_output, <<"##", "Summary">>, {"##", "###"}),
     recommendations |->
        Items(Section(review_output, <<"##", "Recommendations">>,
                      {"##", "###"}))]

\* the items of each severity inside the "## Issues Found" section
extract_review_issues(review_output) ==
    LET issues_text == Section(review_output, <<"##", "Issues", "Found">>,
                               {"##"})
    IN  [severity \in {"Critical", "Moderate", "Minor"} |->
           Items(SeveritySection(issues_text, <<"###", severity>>))]

\* the approval status format_review_results puts into the review comment:
\* a substring scan of the whole text, "" when it finds no token
format_review_results(review_output) ==
    IF InText(review_output, <<"APPROVED">>) THEN "APPROVED"
    ELSE IF InText(review_output, <<"CHANGES", " ", "REQUESTED">>)
            \/ InText(review_output, <<"CHANGES", "_", "REQUESTED">>)
    THEN "CHANGES REQUESTED"
    ELSE IF InText(review_output, <<"NEEDS", " ", "DISCUSSION">>)
            \/ InText(review_output, <<"NEEDS", "_", "DISCUSSION">>)
    THEN "NEEDS DISCUSSION"
    ELSE ""

\* one review text is formatted for the comment and parsed by both functions
ParseReview ==
    /\ parse_call = NoParseCall
    /\ \E review_output \in ReviewTexts :
         \E parsed \in {parse_review_status(review_output)} :
           parse_call' = [phase |-> "parsed", text |-> review_output,
                          approval_status |-> parsed.approval_status,
                          summary |-> parsed.summary,
                          recommendations |-> parsed.recommendations,
                          issues |-> extract_review_issues(review_output),
                          shown_status |->
                              format_review_results(review_output)]
    /\ UNCHANGED <<review_vars, dedup_vars, event_vars, ghost_vars, issue_tasks, webhook,
                   workflow_run>>

\* the caller has taken the parsed values
ParseReturns ==
    /\ parse_call # NoParseCall
    /\ parse_call' = NoParseCall
    /\ UNCHANGED <<review_vars, dedup_vars, event_vars, ghost_vars, issue_tasks, webhook,
                   workflow_run>>

ParserNext == ParseReview \/ ParseReturns

\* the parser applied to every review text up to MaxLines lines
SpecParser == DedupInit /\ [][ParserNext]_vars

----------------------------------------------------------------------------
(* Claims on the review parser *)

Parsed == parse_call.phase = "parsed"

\* the pieces of status tokens and of section headers
TokenPieces == {"APPROVED", "CHANGES", "REQUESTED", "NEEDS", "DISCUSSION"}
HeaderPieces == {"##", "###"}

\* the text holds no status token and no section header
Unstructured ==
    \A i \in 1..Len(parse_call.text) :
        \A k \in 1..Len(parse_call.text[i]) :
            parse_call.text[i][k] \notin TokenPieces \cup HeaderPieces

\* C22: for every text both functions return, the status is one of the
\* three verdicts, and a text with no status token and no section gives
\* NEEDS_DISCUSSION, an empty summary, no recommendations and no issues
C22_ParserTotal ==
    Parsed =>
        /\ parse_call.approval_status \in ApprovalStatuses
        /\ DOMAIN parse_call.issues = {"Critical", "Moderate", "Minor"}
        /\ Unstructured =>
             /\ parse_call.approval_status = "NEEDS_DISCUSSION"
             /\ parse_call.summary = <<>>
             /\ parse_call.recommendations = <<>>
             /\ \A severity \in DOMAIN parse_call.issues :
                  parse_call.issues[severity] = <<>>

\* prose and list items only
C22_Witness ==
    /\ Parsed
    /\ Unstructured
    /\ Len(parse_call.text) = MaxLines
    /\ parse_call.text[1] = <<"-", "text">>
    /\ parse_call.approval_status = "NEEDS_DISCUSSION"

\* the status a token line spells, whatever its form
WrittenStatus(line) ==
    IF ContainsSeq(line, <<"APPROVED">>) THEN "APPROVED"
    ELSE IF ContainsSeq(line, <<"CHANGES">>) THEN "CHANGES_REQUESTED"
    ELSE IF ContainsSeq(line, <<"NEEDS">>) THEN "NEEDS_DISCUSSION"
    ELSE "none"

\* the lines of the parsed text that are an "## Approval Status" header
ApprovalHeaders ==
    {i \in 1..Len(parse_call.text) :
        parse_call.text[i] = <<"##", "Approval", "Status">>}

\* C23: a text with one "## Approval Status" header followed by a status
\* token, bracketed or not, written with a space or with an underscore,
\* parses to the status of that token, whatever tokens stand elsewhere
C23_HeaderDecides ==
    Parsed =>
        \A i \in ApprovalHeaders :
            (/\ ApprovalHeaders = {i}
             /\ i < Len(parse_call.text)
             /\ WrittenStatus(parse_call.text[i + 1]) # "none")
            => parse_call.approval_status = WrittenStatus(parse_call.text[i + 1])

----------------------------------------------------------------------------
(* Claims on the returned dict of handle_review_results, checked under Spec *)

\* the keys of the dict built once the review text is parsed
BaseKeys ==
    {"action", "success", "approval_status", "summary", "recommendations",
     "issues"}

\* the keys that go with the branch taken: attempt_count with the
\* CHANGES_REQUESTED branch, merge_attempted with a merge,
\* reimplementation_attempted and new_adw_id with a re-implementation call
\* that returned
BranchKeys ==
    /\ call.branch \in {"max_attempts_reached", "reimplement"}
         => "attempt_count" \in DOMAIN result
    /\ merge_calls = 1 => "merge_attempted" \in DOMAIN result
    /\ (agent_calls = 1 /\ call.agent_outcome # "raise")
         => {"reimplementation_attempted", "new_adw_id"} \subseteq DOMAIN result

\* C24 as stated: every returned dict, the error paths included, has the
\* six base keys, and the keys that go with the branch taken
C24_AsStated ==
    (Called /\ ~raised) => (BaseKeys \subseteq DOMAIN result /\ BranchKeys)

\* C24 amended: every dict returned once the repository name has been split
\* has the six base keys and the keys that go with the branch taken; the
\* dict returned for an invalid repository name has the keys action,
\* success and error only
C24_ResultKeys ==
    (Called /\ ~raised) =>
        IF call.branch = "error"
        THEN /\ Separators # 1
             /\ DOMAIN result = {"action", "success", "error"}
        ELSE /\ Separators = 1
             /\ BaseKeys \subseteq DOMAIN result
             /\ BranchKeys

\* a review of a pull request whose repository name does not split in two
C24_Witness ==
    /\ Called
    /\ ~raised
    /\ Separators # 1
    /\ result.action = "error"
    /\ "approval_status" \notin DOMAIN result

----------------------------------------------------------------------------
(* Claims on the result of handle_pull_request_event, checked under SpecPR *)

\* the handler has returned for an event with action opened or synchronize
\* and at least one linked issue
AcceptedReturned ==
    /\ pr_event.phase = "returned"
    /\ ReviewAction
    /\ pr_event.issue_numbers # <<>>

\* every linked issue got a comment of this kind
PostedToAll(kind) ==
    \A i \in 1..Len(pr_event.issue_numbers) :
        \E k \in 1..Len(pr_event.comments) :
            pr_event.comments[k] =
                [issue |-> pr_event.issue_numbers[i], kind |-> kind]

\* what the returned dict says when a collaborator raised
FailuresReported ==
    /\ pr_event.review_outcome = "raise" =>
         /\ pr_event.result.success = FALSE
         /\ "error_message" \in DOMAIN pr_event.result
         /\ PostedToAll("review_error")
    /\ pr_event.action_outcome = "raise" =>
         /\ pr_event.result.success = pr_event.review_success
         /\ "error_message" \in DOMAIN pr_event.result
         /\ "review_action_error" \in DOMAIN pr_event.result

\* C25 as stated: every accepted event (opened or synchronize with a linked
\* issue) returns a dict with workflow_triggered true, and a failure of the
\* review workflow or of handle_review_results is reported in it
C25_AsStated ==
    AcceptedReturned =>
        /\ pr_event.result # NoResult
        /\ pr_event.result.workflow_triggered = TRUE
        /\ FailuresReported

\* C25 amended: as stated for a repository name of the form owner/name; for
\* any other repository name the handler returns workflow_triggered false
\* before any comment is posted or any workflow started
C25_AlwaysAResult ==
    AcceptedReturned =>
        /\ pr_event.result # NoResult
        /\ IF RepoParses(pr_event.repo_full_name)
           THEN /\ pr_event.result.workflow_triggered = TRUE
                /\ pr_event.review_calls = 1
                /\ FailuresReported
           ELSE /\ pr_event.result.workflow_triggered = FALSE
                /\ pr_event.review_calls = 0
                /\ pr_event.action_calls = 0
                /\ pr_event.comments = <<>>

\* handle_review_results raised after a review of a pull request with two
\* linked issues that had failed without raising
C25_Witness ==
    /\ AcceptedReturned
    /\ Len(pr_event.issue_numbers) = 2
    /\ pr_event.action_outcome = "raise"
    /\ pr_event.review_success = FALSE
    /\ pr_event.result.workflow_triggered = TRUE
    /\ "review_action_error" \in DOMAIN pr_event.result

\* the numbers the body references with a closing keyword
Referenced ==
    {pr_event.pr_body[i].number :
       i \in {j \in 1..Len(pr_event.pr_body) :
                pr_event.pr_body[j].word = "Closes"}}

\* the comments of one kind posted to one issue by the handler
CommentsOf(issue_number, kind) ==
    Cardinality({k \in 1..Len(pr_event.comments) :
                   pr_event.comments[k] =
                       [issue |-> issue_number, kind |-> kind]})

\* the review phases whose comment the handler has posted
PhasesDone ==
    (IF pr_event.review_calls = 1 THEN {"review_started"} ELSE {})
    \cup (IF pr_event.review_outcome \in ApprovalStatuses
          THEN {"review_results"} ELSE {})
    \cup (IF pr_event.review_outcome = "raise" THEN {"review_error"} ELSE {})

\* C28: the extracted list holds every issue number referenced with a
\* closing keyword exactly once, however often it is referenced, and is
\* empty for a body without such a reference; so each linked issue gets one
\* comment for each review phase that ran, and none for the others
C28_EachIssueOnce ==
    (PRHandled /\ ReviewAction) =>
        /\ {pr_event.issue_numbers[i] : i \in 1..Len(pr_event.issue_numbers)}
             = Referenced
        /\ Len(pr_event.issue_numbers) = Cardinality(Referenced)
        /\ \A issue_number \in Issues,
              kind \in {"review_started", "review_results", "review_error"} :
             CommentsOf(issue_number, kind) =
                 IF issue_number \in Referenced /\ kind \in PhasesDone
                 THEN 1 ELSE 0

\* one issue referenced twice, reviewed, and commented once per phase
C28_Witness ==
    /\ PRHandled
    /\ pr_event.action = "opened"
    /\ pr_event.pr_body = <<[word |-> "Closes", number |-> 1],
                            [word |-> "Closes", number |-> 1]>>
    /\ pr_event.issue_numbers = <<1>>
    /\ pr_event.review_outcome = "APPROVED"
    /\ CommentsOf(1, "review_started") = 1
    /\ CommentsOf(1, "review_results") = 1

----------------------------------------------------------------------------
(* Claims on retries of handle_review_results, checked under Spec *)

\* C30: one call of handle_review_results invokes the merge at most once
\* and the re-implementation at most once, never both; a merge or a
\* re-implementation that fails was invoked once and is reported by
\* success false in the returned dict
C30_NoRetry ==
    Called =>
        /\ merge_calls <= 1
        /\ agent_calls <= 1
        /\ merge_calls + agent_calls <= 1
        /\ call.merge_outcome \in MergeOutcomes \ {"rc0"} =>
             /\ merge_calls = 1
             /\ ~raised
             /\ result.success = FALSE
        /\ call.agent_outcome \in {"plan_failed", "raise"} =>
             /\ agent_calls = 1
             /\ ~raised
             /\ result.success = FALSE

\* a merge that timed out
C30_Witness ==
    /\ Called
    /\ call.merge_outcome = "timeout"
    /\ merge_calls = 1
    /\ agent_calls = 0
    /\ result.success = FALSE

----------------------------------------------------------------------------
(* The webhook endpoint: process_github_webhook *)

\* the fields of ServerConfig
ServerConfigFields ==
    {"server_host", "server_port", "gh_wb_secret", "adw_working_dir",
     "adw_default_model", "static_files_dir", "cors_enabled", "cors_origins",
     "log_level", "environment", "auto_merge_on_approval",
     "auto_reimplement_on_changes", "merge_method", "max_reimplement_attempts"}

\* config.<name>: the value of a field, AttributeError for any other name
ConfigAttribute(name) ==
    IF name \in ServerConfigFields
    THEN [raised |-> FALSE, value |-> name]
    ELSE [raised |-> TRUE, value |-> "AttributeError"]

\* the X-GitHub-Event header; "None" when it was not sent
EventTypes == {"None", "issues", "pull_request", "ping"}
\* the request body: a payload of the event type, JSON that is no such
\* payload, or no JSON
Bodies == {"payload", "bad_payload", "not_json"}
\* the keys a sender may sign with: the configured secret, or another
SigningKeys == {"gh_wb_secret", "guess"}

\* hmac.new(key, msg, sha256).hexdigest(): equal digests have equal key and
\* message
HmacSha256(key, msg) == <<key, msg>>

\* the X-Hub-Signature-256 header: not sent, or a prefix and the digest of
\* some message under some key
SignatureHeaders ==
    {NoHeader} \cup [prefix : {"sha256=", "sha1="}, key : SigningKeys,
                     msg : Bodies]

validate_webhook_signature(payload_body, signature_header, secret) ==
    IF signature_header = NoHeader THEN FALSE
    ELSE IF signature_header.prefix # "sha256=" THEN FALSE
    ELSE HmacSha256(signature_header.key, signature_header.msg)
           = HmacSha256(secret, payload_body)

\* what process_github_webhook does with a request up to the call of a
\* handler: the status code of the response, the handler awaited, whether
\* request.json() was called
process_github_webhook(event_type, body, signature) ==
    LET answer(code, parsed) ==
            [status_code |-> code, handler |-> "None", parsed |-> parsed]
        secret == ConfigAttribute("github_webhook_secret")
    IN  IF event_type = "None" THEN answer(400, FALSE)
        ELSE IF secret.raised THEN answer(500, FALSE)
        ELSE IF ~validate_webhook_signature(body, signature, secret.value)
        THEN answer(401, FALSE)
        ELSE IF body = "not_json" THEN answer(400, TRUE)
        ELSE IF event_type \in {"issues", "pull_request"}
        THEN IF body = "bad_payload" THEN answer(400, TRUE)
             ELSE [status_code |-> 200,
                   handler |-> IF event_type = "issues"
                               THEN "handle_issue_event"
                               ELSE "handle_pull_request_event",
                   parsed |-> TRUE]
        ELSE answer(200, TRUE)

\* a request arrives and is processed up to the first await of the handler
\* it is routed to: handle_issue_event consults the dedup cache there,
\* handle_pull_request_event touches neither map there
WebhookRequest ==
    /\ webhook = NoWebhook
    /\ \E event_type \in EventTypes, body \in Bodies,
          signature \in SignatureHeaders :
         \E run \in {process_github_webhook(event_type, body, signature)} :
           /\ webhook' = [phase |-> "answered", event_type |-> event_type,
                          body |-> body, signature |-> signature,
                          status_code |-> run.status_code,
                          handler |-> run.handler, parsed |-> run.parsed,
                          before |-> workflow_dedup_cache]
           /\ IF run.handler = "handle_issue_event"
              THEN \E issue_number \in Issues, action \in IssueActions,
                      labels \in SampleLabelLists :
                     \E routed \in {determine_workflow_for_issue(
                                      workflow_dedup_cache, issue_number,
                                      action, labels, now)} :
                       /\ workflow_dedup_cache' = routed.cache
                       /\ last_true' =
                            IF routed.workflow # "None"
                            THEN Put(last_true,
                                     <<issue_number, routed.workflow>>, now)
                            ELSE last_true
              ELSE UNCHANGED <<workflow_dedup_cache, last_true>>
    /\ UNCHANGED <<now, dedup_call, review_vars, event_vars, ghost_vars, issue_tasks,
                   parse_call, workflow_run>>

\* the response has been sent
WebhookResponds ==
    /\ webhook # NoWebhook
    /\ webhook' = NoWebhook
    /\ UNCHANGED <<review_vars, dedup_vars, event_vars, ghost_vars, issue_tasks,
                   parse_call, workflow_run>>

WebhookNext == WebhookRequest \/ WebhookResponds

\* webhook requests one after another
SpecWebhook == DedupInit /\ [][WebhookNext]_vars

----------------------------------------------------------------------------
(* Claims on the webhook endpoint, checked under SpecWebhook *)

Answered == webhook.phase = "answered"

\* the signature header was sent and is the HMAC-SHA256 of the body under
\* the configured secret
SignatureMatches ==
    /\ webhook.signature # NoHeader
    /\ webhook.signature.prefix = "sha256="
    /\ webhook.signature.key = "gh_wb_secret"
    /\ webhook.signature.msg = webhook.body

\* C27: a request whose signature is missing or does not match is answered
\* with 401 before the payload is parsed, no handler is invoked and the
\* dedup cache and the attempt map stay as they were; a request with a
\* matching signature and a payload of its event type is routed to the
\* handler of that type
C27_SignatureGate ==
    Answered =>
        /\ (webhook.event_type # "None" /\ ~SignatureMatches) =>
             /\ webhook.status_code = 401
             /\ ~webhook.parsed
             /\ webhook.handler = "None"
             /\ workflow_dedup_cache = webhook.before
             /\ reimplement_attempts = EmptyDict
        /\ (SignatureMatches /\ webhook.body = "payload") =>
             /\ webhook.event_type = "issues"
                  => webhook.handler = "handle_issue_event"
             /\ webhook.event_type = "pull_request"
                  => webhook.handler = "handle_pull_request_event"

----------------------------------------------------------------------------
(* The workflow triggers of adw_integration *)

\* what execute_template gives for one agent run: a response with its
\* success flag and output, or an exception
NoPlanOutputs == {"", "text"}
PlanOutput == "specs/chore-x.md"
Raised == [success |-> FALSE, output |-> "raise"]
AgentResponses ==
    [success : BOOLEAN, output : NoPlanOutputs \cup {PlanOutput}]
        \cup {Raised}

\* mutant: the output is copied to error_message whatever the success flag
ErrorMessage_Always(response) == response.output

\* error_message=None if response.success else response.output
ErrorMessage(response) ==
    IF response.success THEN "None" ELSE response.output

\* the WorkflowResult built from a response, or from the exception
WorkflowResult(response, plan_path) ==
    IF response = Raised
    THEN [success |-> FALSE, output |-> "", plan_path |-> "None",
          error_message |-> "Workflow execution error"]
    ELSE [success |-> response.success, output |-> response.output,
          plan_path |-> plan_path, error_message |-> ErrorMessage(response)]

\* re.search(r"specs/chore-[a-zA-Z0-9\-]+\.md", response.output) after a
\* successful run
trigger_chore_workflow(response) ==
    WorkflowResult(response,
                   IF response.success /\ response.output = PlanOutput
                   THEN PlanOutput ELSE "None")

trigger_implement_workflow(response) == WorkflowResult(response, "None")

trigger_review_workflow(response) == WorkflowResult(response, "None")

\* mutant: the commit does not wait for a successful implementation
CommitGate_AnyImplement(implement_result, branch_name, git_info) ==
    branch_name # "None" /\ git_info

\* if implement_result.success and branch_name and repo_owner and repo_name
CommitGate(implement_result, branch_name, git_info) ==
    implement_result.success /\ branch_name # "None" /\ git_info

\* the inputs of one trigger_chore_implement_workflow call: whether an issue
\* number and a repository were passed, and what each collaborator does
ChoreImplementInputs ==
    [issue_number : {NoIssue, 1}, repo_given : BOOLEAN,
     create_branch : BOOLEAN, chore : AgentResponses,
     implement : AgentResponses, commit_changes : BOOLEAN,
     push_branch : BOOLEAN, create_pull_request : BOOLEAN]

\* (chore_result, implement_result), with the phases run in their order;
\* an implement_result of None is the record NoImplement
NoImplement == [success |-> FALSE, output |-> "None", plan_path |-> "None",
                error_message |-> "None"]

trigger_chore_implement_workflow(in) ==
    LET git_info == in.issue_number # NoIssue /\ in.repo_given
        branch_phase == IF git_info THEN <<"create_branch">> ELSE <<>>
        branch_name == IF git_info /\ in.create_branch THEN "issue-1"
                       ELSE "None"
        chore_result == trigger_chore_workflow(in.chore)
    IN  IF ~chore_result.success
        THEN [results |-> <<chore_result, NoImplement>>,
              phases |-> branch_phase \o <<"chore">>]
        ELSE IF chore_result.plan_path = "None"
        THEN [results |->
                <<[chore_result EXCEPT
                     !.success = FALSE,
                     !.error_message =
                        "Plan file path not found in chore output"],
                  NoImplement>>,
              phases |-> branch_phase \o <<"chore">>]
        ELSE
        LET implement_result == trigger_implement_workflow(in.implement)
            commits == CommitGate(implement_result, branch_name, git_info)
            pushes == commits /\ in.commit_changes
            creates == pushes /\ in.push_branch
            pr_url == creates /\ in.create_pull_request
        IN  [results |->
               <<chore_result,
                 IF pr_url
                 THEN [implement_result EXCEPT !.output = "output and PR link"]
                 ELSE implement_result>>,
             phases |-> branch_phase \o <<"chore", "implement">>
                        \o (IF commits THEN <<"commit">> ELSE <<>>)
                        \o (IF pushes THEN <<"push">> ELSE <<>>)
                        \o (IF creates THEN <<"create_pr">> ELSE <<>>)]

\* what each trigger takes in the model
TriggerInputs(function) ==
    IF function = "trigger_chore_implement_workflow"
    THEN ChoreImplementInputs
    ELSE [response : AgentResponses]

\* one trigger function is called and returns
WorkflowTriggered ==
    /\ workflow_run = NoWorkflowRun
    /\ \E function \in {"trigger_chore_workflow", "trigger_implement_workflow",
                        "trigger_review_workflow",
                        "trigger_chore_implement_workflow"} :
         \E in \in TriggerInputs(function) :
           workflow_run' =
             CASE function = "trigger_chore_workflow" ->
                    [function |-> function, inputs |-> in,
                     results |-> <<trigger_chore_workflow(in.response)>>,
                     phases |-> <<"chore">>]
               [] function = "trigger_implement_workflow" ->
                    [function |-> function, inputs |-> in,
                     results |-> <<trigger_implement_workflow(in.response)>>,
                     phases |-> <<"implement">>]
               [] function = "trigger_review_workflow" ->
                    [function |-> function, inputs |-> in,
                     results |-> <<trigger_review_workflow(in.response)>>,
                     phases |-> <<"review">>]
               [] function = "trigger_chore_implement_workflow" ->
                    [function |-> function, inputs |-> in]
                        @@ trigger_chore_implement_workflow(in)
    /\ UNCHANGED <<review_vars, dedup_vars, event_vars, ghost_vars, issue_tasks,
                   parse_call, webhook>>

\* the caller has taken the results
WorkflowReturns ==
    /\ workflow_run # NoWorkflowRun
    /\ workflow_run' = NoWorkflowRun
    /\ UNCHANGED <<review_vars, dedup_vars, event_vars, ghost_vars, issue_tasks,
                   parse_call, webhook>>

WorkflowNext == WorkflowTriggered \/ WorkflowReturns

\* the trigger functions applied to every outcome of their collaborators
SpecWorkflow == DedupInit /\ [][WorkflowNext]_vars

----------------------------------------------------------------------------
(* Claims on the workflow triggers, checked under SpecWorkflow *)

ChoreImplementRan ==
    workflow_run.function = "trigger_chore_implement_workflow"

Ran(phase) ==
    \E k \in 1..Len(workflow_run.phases) : workflow_run.phases[k] = phase

\* the phases of trigger_chore_implement_workflow in their order
PhaseOrder ==
    <<"create_branch", "chore", "implement", "commit", "push", "create_pr">>

\* where a phase stands in PhaseOrder
PhaseRank(phase) == CHOOSE k \in 1..Len(PhaseOrder) : PhaseOrder[k] = phase

\* C26: the phases run in the fixed order; implement only after a planning
\* phase that succeeded with a plan path, and without it the implement
\* result is None and the plan result has success false; commit only after a
\* successful implement on a created branch, push only after a successful
\* commit, PR creation only after a successful push
C26_PhasesGated ==
    ChoreImplementRan =>
        /\ \A j, k \in 1..Len(workflow_run.phases) :
             j < k => PhaseRank(workflow_run.phases[j])
                        < PhaseRank(workflow_run.phases[k])
        /\ Ran("chore")
        /\ IF /\ workflow_run.inputs.chore # Raised
              /\ workflow_run.inputs.chore.success
              /\ workflow_run.inputs.chore.output = PlanOutput
           THEN Ran("implement")
           ELSE /\ ~Ran("implement")
                /\ workflow_run.results[2] = NoImplement
                /\ workflow_run.results[1].success = FALSE
        /\ Ran("commit") =>
             /\ Ran("implement")
             /\ workflow_run.results[2].success
             /\ Ran("create_branch")
             /\ workflow_run.inputs.create_branch
        /\ Ran("push") => (Ran("commit") /\ workflow_run.inputs.commit_changes)
        /\ Ran("create_pr") => (Ran("push") /\ workflow_run.inputs.push_branch)

\* a full run: branch, plan, implementation, commit, push and PR
C26_Witness ==
    /\ ChoreImplementRan
    /\ workflow_run.phases = PhaseOrder
    /\ workflow_run.results[2].success

\* C29: every WorkflowResult returned by the four triggers has an
\* error_message other than None exactly when its success is false: after
\* agent success, agent failure, an exception of the agent call, and a
\* planning that succeeded without a plan path
C29_ErrorIffFailure ==
    \A k \in 1..Len(workflow_run.results) :
        workflow_run.results[k] # NoImplement =>
            (workflow_run.results[k].error_message # "None"
               <=> ~workflow_run.results[k].success)

\* a planning that succeeded without a plan path
C29_Witness ==
    /\ ChoreImplementRan
    /\ workflow_run.inputs.chore = [success |-> TRUE, output |-> "text"]
    /\ workflow_run.results[1].success = FALSE
    /\ workflow_run.results[1].error_message
         = "Plan file path not found in chore output"

----------------------------------------------------------------------------
(* Suppressed calls of should_trigger_workflow, counted *)

\* suppressed calls counted per key
MaxSuppressed == 2

\* one call of should_trigger_workflow, with the history of the suppressed
\* calls of each key since the key's last True result; CalledKey is the key
\* of the call
ShouldTriggerWorkflowCounted ==
    /\ dedup_call = NoDedupCall
    /\ \E issue_number \in Issues, workflow_type \in {"chore"} :
         \E run \in {should_trigger_workflow(workflow_dedup_cache,
                         issue_number, workflow_type, now)} :
           LET cache_key == <<issue_number, workflow_type>>
           IN  /\ run.returned \/ Get(suppressed, cache_key, 0) < MaxSuppressed
               /\ workflow_dedup_cache' = run.cache
               /\ dedup_call' = [issue_number |-> issue_number,
                                 workflow_type |-> workflow_type,
                                 returned |-> run.returned,
                                 at |-> now,
                                 before |-> workflow_dedup_cache,
                                 history |-> last_true]
               /\ last_true' = IF run.returned
                               THEN Put(last_true, cache_key, now)
                               ELSE last_true
               /\ suppressed' =
                    IF run.returned THEN suppressed
                    ELSE Put(suppressed, cache_key,
                             Get(suppressed, cache_key, 0) + 1)
    /\ UNCHANGED <<now, review_vars, event_vars, issue_tasks, other_vars,
                   last_outcome>>

\* the caller has taken the returned value; after a True result the key
\* starts counting afresh
CountedCallReturns ==
    /\ dedup_call # NoDedupCall
    /\ dedup_call' = NoDedupCall
    /\ suppressed' = IF dedup_call.returned
                     THEN Put(suppressed, CalledKey, 0)
                     ELSE suppressed
    /\ UNCHANGED <<workflow_dedup_cache, now, last_true, review_vars,
                   event_vars, issue_tasks, other_vars, last_outcome>>

WindowNext == ShouldTriggerWorkflowCounted \/ CountedCallReturns \/ Tick

\* dedup calls for one workflow kind over a clock, suppressed calls counted
SpecWindow == DedupInit /\ [][WindowNext]_vars

----------------------------------------------------------------------------
(* Claims on suppressed calls, checked under SpecWindow *)

\* C31: a suppressed call leaves the timestamp of its key as it was, every
\* stored timestamp is the time of the key's last True result, and a call
\* made more than DEDUP_WINDOW_SECONDS after that result returns True
\* however many suppressed calls came in between
C31_SuppressedKeepsTimestamp ==
    /\ \A key \in DOMAIN workflow_dedup_cache :
         /\ key \in DOMAIN last_true
         /\ workflow_dedup_cache[key] = last_true[key]
    /\ DedupCalled =>
         /\ dedup_call.returned = FALSE =>
              /\ CalledKey \in DOMAIN dedup_call.before
              /\ CalledKey \in DOMAIN workflow_dedup_cache
              /\ workflow_dedup_cache[CalledKey] = dedup_call.before[CalledKey]
         /\ (/\ CalledKey \in DOMAIN dedup_call.history
             /\ dedup_call.at - dedup_call.history[CalledKey]
                  > DEDUP_WINDOW_SECONDS)
            => dedup_call.returned = TRUE

\* two suppressed calls after a trigger, then a call 61 s after the trigger
\* that returns True
C31_Witness ==
    /\ DedupCalled
    /\ dedup_call.returned = TRUE
    /\ CalledKey \in DOMAIN dedup_call.history
    /\ dedup_call.at - dedup_call.history[CalledKey] = DEDUP_WINDOW_SECONDS + 1
    /\ CalledKey \in DOMAIN suppressed
    /\ suppressed[CalledKey] = MaxSuppressed

----------------------------------------------------------------------------
(* Claims on the sweep of the deduplication cache, checked under SpecDedup *)

\* C32: right after a call made at time t the cache holds no entry, of any
\* key, older than DEDUP_WINDOW_SECONDS at t, every entry that was not older
\* is still there, and a call is suppressed only by an entry that is not
\* older than the window
C32_SweepsWholeCache ==
    DedupCalled =>
        /\ \A key \in DOMAIN workflow_dedup_cache :
             dedup_call.at - workflow_dedup_cache[key] <= DEDUP_WINDOW_SECONDS
        /\ \A key \in DOMAIN dedup_call.before :
             (dedup_call.at - dedup_call.before[key] > DEDUP_WINDOW_SECONDS
                /\ key # CalledKey)
             => key \notin DOMAIN workflow_dedup_cache
        /\ dedup_call.returned = FALSE =>
             /\ CalledKey \in DOMAIN dedup_call.before
             /\ dedup_call.at - dedup_call.before[CalledKey]
                  <= DEDUP_WINDOW_SECONDS

\* a suppressed call for one key sweeps the expired entry of another key
C32_Witness ==
    /\ DedupCalled
    /\ dedup_call.returned = FALSE
    /\ \E key \in DOMAIN dedup_call.before :
         /\ key # CalledKey
         /\ dedup_call.at - dedup_call.before[key] > DEDUP_WINDOW_SECONDS
         /\ key \notin DOMAIN workflow_dedup_cache

----------------------------------------------------------------------------
(* Claims on the fallback scan and on the summary, checked under SpecParser *)

\* some line of the parsed text holds this piece
HasPiece(piece) ==
    \E i \in 1..Len(parse_call.text) :
        \E k \in 1..Len(parse_call.text[i]) : parse_call.text[i][k] = piece

\* C33: when no Approval Status header with a token after it matches, the
\* status is APPROVED for a text that holds APPROVED, also when it holds
\* CHANGES REQUESTED or CHANGES_REQUESTED as well; otherwise
\* CHANGES_REQUESTED for a text that holds one of these two; otherwise
\* NEEDS_DISCUSSION
C33_FallbackPriority ==
    (Parsed /\ ApprovalMatches(parse_call.text) = {}) =>
        parse_call.approval_status =
            IF HasPiece("APPROVED") THEN "APPROVED"
            ELSE IF InText(parse_call.text, <<"CHANGES", " ", "REQUESTED">>)
                    \/ InText(parse_call.text, <<"CHANGES", "_", "REQUESTED">>)
            THEN "CHANGES_REQUESTED"
            ELSE "NEEDS_DISCUSSION"

\* CHANGES_REQUESTED, then APPROVED, and no header
C33_Witness ==
    /\ Parsed
    /\ parse_call.text = <<<<"CHANGES", "_", "REQUESTED">>, <<"text">>,
                           <<"APPROVED">>>>
    /\ parse_call.approval_status = "APPROVED"

\* the lines after the first "## Summary" header up to the next line that
\* is a top-level heading
SummarySection ==
    TakeUntil(AfterHeader(parse_call.text, <<"##", "Summary">>), {"##"})

\* C34: the summary is the text after the "## Summary" header up to the
\* next top-level (##) heading or the end of the input; a ### sub-heading
\* does not end it, and nothing of a sibling ## section is in it
C34_SummaryToTopLevel ==
    Parsed => parse_call.summary = SummarySection

----------------------------------------------------------------------------
(* Claims on the attempt counter of a re-implementation, checked under Spec *)

\* issue_numbers[0] of the call, 0 for a pull request without linked issue
FirstLinked ==
    IF call.issue_numbers = <<>> THEN NoIssue ELSE call.issue_numbers[1]

\* the call went past the loop protection and invoked the agent
Reimplemented == Called /\ call.branch = "reimplement"

\* C35: the counter of the primary issue is incremented before the agent is
\* invoked and is not rolled back: after a call that invoked the agent the
\* count is one more than before, whether the workflow succeeded, its
\* planning failed or it raised; the count of an issue is the number of agent
\* runs started for it since its last reset, failed ones included
C35_FailedAttemptCounts ==
    /\ Reimplemented =>
         /\ agent_calls = 1
         /\ Get(reimplement_attempts, FirstLinked, 0)
              = Get(call.before, FirstLinked, 0) + 1
    /\ \A i \in IssueKeys : Get(reimplement_attempts, i, 0) = started[i]

\* a second attempt that raised
C35_Witness ==
    /\ Reimplemented
    /\ call.agent_outcome = "raise"
    /\ Get(call.before, FirstLinked, 0) = 1
    /\ Get(reimplement_attempts, FirstLinked, 0) = 2
    /\ result.success = FALSE

\* C36: on CHANGES_REQUESTED with auto-reimplement enabled only the counter
\* of the first linked issue is read and incremented: the loop protection
\* refuses exactly when that counter has reached the limit, whatever the
\* counters of the other linked issues are, and those are left unchanged
C36_OnlyPrimaryCounter ==
    (Called /\ call.branch \in {"reimplement", "max_attempts_reached"}) =>
        /\ call.branch = "max_attempts_reached"
             <=> Get(call.before, FirstLinked, 0)
                   >= config.max_reimplement_attempts
        /\ \A i \in IssueKeys \ {FirstLinked} :
             Get(reimplement_attempts, i, 0) = Get(call.before, i, 0)

\* a pull request linked to two issues, the second one already at the limit
C36_Witness ==
    /\ Reimplemented
    /\ Len(call.issue_numbers) = 2
    /\ Get(call.before, call.issue_numbers[2], 0)
         >= config.max_reimplement_attempts
    /\ Get(reimplement_attempts, FirstLinked, 0)
         = Get(call.before, FirstLinked, 0) + 1

----------------------------------------------------------------------------
(* Redelivered issue events: the events of one workflow kind over a clock,
   with the outcome of the last workflow of each key kept *)

\* mutant: the entry of a workflow that failed or raised is taken out of
\* the cache, so that a redelivery can start it again
IssueWorkflowCompletesRecorded_ForgetsFailure ==
    /\ issue_event.phase = "awaiting"
    /\ \E outcome \in WorkflowOutcomes(issue_event.workflow) :
         /\ issue_event' =
              [issue_event EXCEPT
                 !.phase = "returned",
                 !.outcome = outcome,
                 !.comments = Append(@, CompletionComment(issue_event.workflow,
                                                          outcome)),
                 !.result = IssueResult(issue_event.workflow,
                                        issue_event.issue_number, outcome)]
         /\ last_outcome' =
              Put(last_outcome,
                  <<issue_event.issue_number, issue_event.workflow>>, outcome)
         /\ workflow_dedup_cache' =
              IF outcome \in {"failure", "raise"}
              THEN Del(workflow_dedup_cache,
                       <<issue_event.issue_number, issue_event.workflow>>)
              ELSE workflow_dedup_cache
    /\ UNCHANGED <<now, dedup_call, last_true, review_vars, pr_event,
                   tracker_call, increments, tasks, issue_tasks, other_vars,
                   suppressed>>

\* IssueWorkflowCompletes, with the outcome kept per key
IssueWorkflowCompletesRecorded ==
    /\ issue_event.phase = "awaiting"
    /\ \E outcome \in WorkflowOutcomes(issue_event.workflow) :
         /\ issue_event' =
              [issue_event EXCEPT
                 !.phase = "returned",
                 !.outcome = outcome,
                 !.comments = Append(@, CompletionComment(issue_event.workflow,
                                                          outcome)),
                 !.result = IssueResult(issue_event.workflow,
                                        issue_event.issue_number, outcome)]
         /\ last_outcome' =
              Put(last_outcome,
                  <<issue_event.issue_number, issue_event.workflow>>, outcome)
    /\ UNCHANGED <<dedup_vars, review_vars, pr_event, tracker_call,
                   increments, tasks, issue_tasks, other_vars, suppressed>>

RedeliveryNext ==
    \/ HandleIssueEventCall({"opened", "labeled"}, {<<"bug">>})
    \/ IssueWorkflowCompletesRecorded
    \/ IssueEventReturns
    \/ IssueTick

SpecRedelivery == DedupInit /\ [][RedeliveryNext]_vars

----------------------------------------------------------------------------
(* Claims on the cache entry of an issue event; C37 is checked under
   SpecRedelivery, C38 under SpecIssue *)

\* the key under which the workflow of the handled event was recorded
TriggeredKey == <<issue_event.issue_number, issue_event.workflow>>

\* C37: the cache entry is recorded when the workflow kind is decided,
\* before the agent workflow has ended, and it is still there with the same
\* timestamp when the workflow has succeeded, failed or raised; an event of
\* the same issue and kind less than 60 seconds after the trigger starts no
\* workflow, whatever the outcome of the first workflow was
C37_EntryOutlivesFailure ==
    /\ (issue_event.phase \in {"awaiting", "returned"}
          /\ issue_event.workflow # "None") =>
         /\ TriggeredKey \in DOMAIN workflow_dedup_cache
         /\ workflow_dedup_cache[TriggeredKey] = issue_event.at
    /\ (IssueEventHandled /\ RoutedAction /\ EventKey[2] # "None"
          /\ RecentTrigger /\ EventKey \in DOMAIN last_outcome) =>
         /\ issue_event.workflow = "None"
         /\ issue_event.agent_calls = 0
         /\ workflow_dedup_cache[EventKey] = issue_event.history[EventKey]

\* the first workflow raised; the redelivery 59 seconds after the trigger
\* is suppressed
C37_Witness ==
    /\ IssueEventHandled
    /\ RoutedAction
    /\ RecentTrigger
    /\ issue_event.at - issue_event.history[EventKey] = DEDUP_WINDOW_SECONDS - 1
    /\ EventKey \in DOMAIN last_outcome
    /\ last_outcome[EventKey] = "raise"
    /\ issue_event.workflow = "None"
    /\ issue_event.agent_calls = 0

\* the handled event is not routed: its action is neither opened nor
\* labeled, or none of its labels names a workflow
NotRouted ==
    /\ IssueEventHandled
    /\ ~RoutedAction \/ WorkflowForLabels(issue_event.labels) = "None"

\* C38: an event that is given no workflow because of its action or because
\* no label matches leaves the cache as it was: no entry is added, no
\* timestamp is changed and no expired entry is swept
C38_NotRoutedLeavesCache ==
    NotRouted =>
        /\ issue_event.workflow = "None"
        /\ workflow_dedup_cache = issue_event.before
        /\ last_true = issue_event.history

\* an event without a matching label, handled while the cache holds an
\* expired entry: the entry is still there
C38_Witness ==
    /\ NotRouted
    /\ RoutedAction
    /\ \E key \in DOMAIN issue_event.before :
         /\ issue_event.at - issue_event.before[key] > DEDUP_WINDOW_SECONDS
         /\ key \in DOMAIN workflow_dedup_cache

----------------------------------------------------------------------------
(* Claim on the status shown in the review comment, checked under SpecParser *)

\* the status a comment line announces, as parse_review_status names it
Announced(shown_status) ==
    IF shown_status = "CHANGES REQUESTED" THEN "CHANGES_REQUESTED"
    ELSE IF shown_status = "NEEDS DISCUSSION" THEN "NEEDS_DISCUSSION"
    ELSE shown_status

\* C39: for every review output, a status shown in the review comment is the
\* status handle_review_results acts on: the comment does not announce
\* APPROVED for a review parsed as CHANGES_REQUESTED or NEEDS_DISCUSSION,
\* nor the reverse
C39_CommentShowsActedStatus ==
    (Parsed /\ parse_call.shown_status # "") =>
        Announced(parse_call.shown_status) = parse_call.approval_status

====
